---- MODULE Spec2Model ----
(***************************************************************************)
(* Model of polar2grid's rescaling engine (polar2grid/core/rescale.py):    *)
(* the scaling function library, Rescaler._rescale_data (the masked       *)
(* application layer) and Rescaler.get_rescale_options (rule resolution).  *)
(*                                                                         *)
(* Pixel values and numeric options are exact rationals <<n, d>> with      *)
(* d > 0 in lowest terms; the floating point NaN is <<0, 0>>.  A Python    *)
(* None is <<0, -1>>.  Buffers are sequences of such values, masks are     *)
(* sequences of BOOLEAN, option mappings (Python dicts) are functions      *)
(* whose DOMAIN is the set of keys present.                                *)
(***************************************************************************)
EXTENDS Integers, Sequences, FiniteSets, TLC

VARIABLES
    pc,               \* "ready" before the modelled call, "done" after it
    config,           \* the loaded rule set of the Rescaler, in load order
    gridded_product,  \* metadata of the product (with its grid's), a dict
    data_type,        \* requested output data type
    exc_args,         \* arguments of the exception that left the call
    method,           \* method name passed to _rescale_data
    rescale_options,  \* the options mapping (dict) passed to the call
    fill_value,       \* fill value for invalid output pixels
    clip, mask_clip, inc_by_one, clip_zero,   \* policy flags of _rescale_data
    in_data,          \* buffer contents when the call starts
    in_mask,          \* validity mask when the call starts (TRUE = valid)
    data,             \* the buffer object (mutated in place)
    good_data_mask,   \* the mask object (mutated in place)
    good_data,        \* what the scaling function returned (local of _rescale_data)
    ret,              \* buffer returned by the call (<<>> if it raised)
    raised,           \* exception type that left the call, "none" if it returned
    log,              \* sequence of log records written at WARNING or above
    preresolved,      \* rescale_product was handed rescale_options (not None)
    registered,       \* names stored by register_rescale_method
    palette,          \* input range of the built-in palette object (shared)
    calls             \* the calls in progress when two callers run at once

vars == <<pc, config, gridded_product, data_type, exc_args, method,
          rescale_options, fill_value, clip, mask_clip, inc_by_one,
          clip_zero, in_data, in_mask, data, good_data_mask, good_data, ret,
          raised, log,
          preresolved, registered, palette, calls>>

\* the state only some of the modelled calls touch
facade_vars == <<preresolved, registered, palette, calls>>

----------------------------------------------------------------------------
(* Bounds of the model *)

\* number of pixels of a buffer
NPix == 2
\* valid input pixels take the integer values -1 .. MaxIn (and BigIn, NaN)
MaxIn == 0
\* top of the small output range used for min_out / max_out
MaxOut == 2

----------------------------------------------------------------------------
(* Exact arithmetic with numpy's NaN rules *)

NaN == <<0, 0>>
None == <<0, -1>>

Abs(n) == IF n < 0 THEN -n ELSE n

RECURSIVE GCD(_, _)
GCD(a, b) == IF b = 0 THEN a ELSE GCD(b, a % b)

\* the rational n/d (d # 0) in lowest terms with a positive denominator
Rat(n, d) ==
    LET s == IF d < 0 THEN -1 ELSE 1
        g == GCD(Abs(n), Abs(d))
    IN  <<(s * n) \div g, (s * d) \div g>>

Q(i) == <<i, 1>>

IsNaN(x) == x[2] = 0
IsNone(x) == x[2] < 0

VAdd(x, y) == IF IsNaN(x) \/ IsNaN(y) THEN NaN
              ELSE Rat(x[1] * y[2] + y[1] * x[2], x[2] * y[2])
VNeg(x) == IF IsNaN(x) THEN NaN ELSE <<-x[1], x[2]>>
VSub(x, y) == VAdd(x, VNeg(y))
VMul(x, y) == IF IsNaN(x) \/ IsNaN(y) THEN NaN
              ELSE Rat(x[1] * y[1], x[2] * y[2])
\* x / y for y # 0 (callers decide what a zero divisor does)
VDiv(x, y) == IF IsNaN(x) \/ IsNaN(y) THEN NaN
              ELSE Rat(x[1] * y[2], x[2] * y[1])

\* IEEE comparisons: every comparison with NaN is false, NaN != NaN is true
VLt(x, y) == ~IsNaN(x) /\ ~IsNaN(y) /\ x[1] * y[2] < y[1] * x[2]
VLe(x, y) == ~IsNaN(x) /\ ~IsNaN(y) /\ x[1] * y[2] <= y[1] * x[2]
VGt(x, y) == VLt(y, x)
VGe(x, y) == VLe(y, x)
VEq(x, y) == ~IsNaN(x) /\ ~IsNaN(y) /\ x = y
VNe(x, y) == ~VEq(x, y)

\* numpy.clip(x, lo, hi) == minimum(hi, maximum(x, lo)); NaN stays NaN
NpClip(x, lo, hi) ==
    IF IsNaN(x) THEN NaN
    ELSE LET m == IF VLt(x, lo) THEN lo ELSE x
         IN  IF VGt(m, hi) THEN hi ELSE m

\* what a float array holds after `arr[i] = v`: None is stored as NaN
Store(v) == IF IsNone(v) THEN NaN ELSE v

----------------------------------------------------------------------------
(* Python dict helpers *)

Has(d, k) == k \in DOMAIN d
Get(d, k, dflt) == IF k \in DOMAIN d THEN d[k] ELSE dflt
\* d.pop(k): the mapping without key k
Pop(d, k) == [x \in (DOMAIN d) \ {k} |-> d[x]]
\* d[k] = v
Put(d, k, v) == [x \in (DOMAIN d) \cup {k} |-> IF x = k THEN v ELSE d[x]]
EmptyDict == [x \in {} |-> NaN]

----------------------------------------------------------------------------
(* numpy boolean-mask indexing *)

\* positions of the valid pixels, in order
ValidIdx(mask) ==
    LET S == {i \in 1..Len(mask) : mask[i]}
    IN  [k \in 1..Cardinality(S) |->
            CHOOSE i \in S : Cardinality({j \in S : j <= i}) = k]
\* data[good_data_mask]: a copy of the valid pixels
Extract(d, mask) == [k \in 1..Len(ValidIdx(mask)) |-> d[ValidIdx(mask)[k]]]
Rank(mask, i) == Cardinality({j \in 1..i : mask[j]})
\* data[good_data_mask] = good_data
Scatter(d, mask, good) ==
    [i \in 1..Len(d) |-> IF mask[i] THEN good[Rank(mask, i)] ELSE d[i]]

----------------------------------------------------------------------------
(* Scaling function library.  Every function returns                      *)
(*   [exc |-> exception type or "none", img |-> result, log |-> records]  *)

Ok(img) == [exc |-> "none", img |-> img, log |-> <<>>]
Fail(e) == [exc |-> e, img |-> <<>>, log |-> <<>>]

\* numpy.nanmin / numpy.nanmax of a non-empty array: NaN when all are NaN
NanMin(img) ==
    LET S == {i \in 1..Len(img) : ~IsNaN(img[i])}
    IN  IF S = {} THEN NaN
        ELSE img[CHOOSE i \in S : \A j \in S : VLe(img[i], img[j])]
NanMax(img) ==
    LET S == {i \in 1..Len(img) : ~IsNaN(img[i])}
    IN  IF S = {} THEN NaN
        ELSE img[CHOOSE i \in S : \A j \in S : VGe(img[i], img[j])]

linear_scale(img, m, b) ==
    LET a1 == IF VNe(m, Q(1)) THEN [i \in DOMAIN img |-> VMul(img[i], m)] ELSE img
        a2 == IF VNe(b, Q(0)) THEN [i \in DOMAIN a1 |-> VAdd(a1[i], b)] ELSE a1
    IN  Ok(a2)

\* mutant: the division comes before the subtraction
unlinear_scale_DivideFirst(img, m, b) ==
    Ok([i \in DOMAIN img |->
          VSub(IF VEq(m, Q(0)) THEN NaN ELSE VDiv(img[i], m), b)])

\* one pixel of unlinear_scale; a division by 0.0 gives no finite number
unlinear_pixel(x, m, b) ==
    IF VEq(m, Q(1)) THEN x
    ELSE IF VEq(m, Q(0)) THEN NaN
    ELSE VDiv(x, m)

unlinear_scale(img, m, b) ==
    Ok([i \in DOMAIN img |->
          unlinear_pixel(IF VNe(b, Q(0)) THEN VSub(img[i], b) ELSE img[i], m, b)])

passive_scale(img) == Ok(img)

\* mutant: flip is ignored
linear_flexible_scale_NoFlip(img, min_out0, max_out, min_in0, max_in0, flip, offset) ==
    IF (IsNone(min_in0) \/ IsNone(max_in0)) /\ Len(img) = 0
    THEN Fail("ValueError")   \* nanmin / nanmax of a zero-size array
    ELSE
    LET min_out == IF VNe(offset, Q(0)) THEN VAdd(min_out0, offset) ELSE min_out0
        min_in == IF IsNone(min_in0) THEN NanMin(img) ELSE min_in0
        max_in1 == IF IsNone(max_in0) THEN NanMax(img) ELSE max_in0
        same == VEq(min_in, max_in1)
        max_in == IF same THEN VAdd(min_in, Q(1)) ELSE max_in1
        m == VDiv(VSub(max_out, min_out), VSub(max_in, min_in))
        b == VSub(min_out, VMul(m, min_in))
        a1 == IF VNe(m, Q(1)) THEN [i \in DOMAIN img |-> VMul(img[i], m)] ELSE img
        a2 == IF VNe(b, Q(0)) THEN [i \in DOMAIN a1 |-> VAdd(a1[i], b)] ELSE a1
    IN  [exc |-> "none", img |-> a2,
         log |-> IF same THEN <<"WARNING">> ELSE <<>>]

\* mutant: equal input bounds are not nudged apart, the division fails
linear_flexible_scale_NoNudge(img, min_out0, max_out, min_in0, max_in0, flip, offset) ==
    IF (IsNone(min_in0) \/ IsNone(max_in0)) /\ Len(img) = 0
    THEN Fail("ValueError")   \* nanmin / nanmax of a zero-size array
    ELSE IF VEq(IF IsNone(min_in0) THEN NanMin(img) ELSE min_in0,
                IF IsNone(max_in0) THEN NanMax(img) ELSE max_in0)
    THEN Fail("ZeroDivisionError")
    ELSE
    LET min_out == IF VNe(offset, Q(0)) THEN VAdd(min_out0, offset) ELSE min_out0
        min_in == IF IsNone(min_in0) THEN NanMin(img) ELSE min_in0
        max_in1 == IF IsNone(max_in0) THEN NanMax(img) ELSE max_in0
        same == VEq(min_in, max_in1)
        max_in == IF same THEN VAdd(min_in, Q(1)) ELSE max_in1
        m == IF flip THEN VDiv(VSub(min_out, max_out), VSub(max_in, min_in))
                     ELSE VDiv(VSub(max_out, min_out), VSub(max_in, min_in))
        b == IF flip THEN VSub(max_out, VMul(m, min_in))
                     ELSE VSub(min_out, VMul(m, min_in))
        a1 == IF VNe(m, Q(1)) THEN [i \in DOMAIN img |-> VMul(img[i], m)] ELSE img
        a2 == IF VNe(b, Q(0)) THEN [i \in DOMAIN a1 |-> VAdd(a1[i], b)] ELSE a1
    IN  [exc |-> "none", img |-> a2,
         log |-> IF same THEN <<"WARNING">> ELSE <<>>]

linear_flexible_scale(img, min_out0, max_out, min_in0, max_in0, flip, offset) ==
    IF (IsNone(min_in0) \/ IsNone(max_in0)) /\ Len(img) = 0
    THEN Fail("ValueError")   \* nanmin / nanmax of a zero-size array
    ELSE
    LET min_out == IF VNe(offset, Q(0)) THEN VAdd(min_out0, offset) ELSE min_out0
        min_in == IF IsNone(min_in0) THEN NanMin(img) ELSE min_in0
        max_in1 == IF IsNone(max_in0) THEN NanMax(img) ELSE max_in0
        same == VEq(min_in, max_in1)
        max_in == IF same THEN VAdd(min_in, Q(1)) ELSE max_in1
        m == IF flip THEN VDiv(VSub(min_out, max_out), VSub(max_in, min_in))
                     ELSE VDiv(VSub(max_out, min_out), VSub(max_in, min_in))
        b == IF flip THEN VSub(max_out, VMul(m, min_in))
                     ELSE VSub(min_out, VMul(m, min_in))
        a1 == IF VNe(m, Q(1)) THEN [i \in DOMAIN img |-> VMul(img[i], m)] ELSE img
        a2 == IF VNe(b, Q(0)) THEN [i \in DOMAIN a1 |-> VAdd(a1[i], b)] ELSE a1
    IN  [exc |-> "none", img |-> a2,
         log |-> IF same THEN <<"WARNING">> ELSE <<>>]

\* numpy.round(numpy.sqrt(t)) for a rational t >= 0: the integer nearest to
\* the square root, the even one of the two when it lies halfway
RoundSqrt(t) ==
    LET k == CHOOSE n \in 0..(t[1] + 1) :
                 /\ (n = 0 \/ (2 * n - 1) * (2 * n - 1) * t[2] <= 4 * t[1])
                 /\ 4 * t[1] < (2 * n + 1) * (2 * n + 1) * t[2]
    IN  IF k > 0 /\ (2 * k - 1) * (2 * k - 1) * t[2] = 4 * t[1] /\ k % 2 = 1
        THEN Q(k - 1) ELSE Q(k)

\* numpy.round(c * numpy.sqrt(t)); the root of a negative number is NaN
RoundRoot(c, t) ==
    IF IsNaN(c) \/ IsNaN(t) \/ VLt(t, Q(0)) THEN NaN
    ELSE IF VLt(c, Q(0)) THEN VNeg(RoundSqrt(VMul(VMul(c, c), t)))
    ELSE RoundSqrt(VMul(VMul(c, c), t))

\* lines 165-172 for one pixel, outer_mult being c / sqrt(q)
sqrt_pixel(x, inner_mult, c, q) ==
    IF IsNaN(x) THEN NaN
    ELSE IF VLe(q, Q(0)) THEN NaN
    ELSE RoundRoot(c, VDiv(VMul(IF VLt(x, Q(0)) THEN Q(0) ELSE x, inner_mult), q))

\* lines 156-160, max_in being the value after the percentage adjustment
sqrt_mults(img, max_out, inner_mult, outer_mult, max_in) ==
    IF IsNone(inner_mult) /\ VEq(max_in, Q(0)) THEN Fail("ZeroDivisionError")
    ELSE IF IsNone(outer_mult)
    THEN Ok([i \in DOMAIN img |->
               sqrt_pixel(img[i],
                          IF IsNone(inner_mult) THEN VDiv(Q(100), max_in)
                          ELSE inner_mult,
                          max_out,
                          VMul(IF IsNone(inner_mult) THEN VDiv(Q(100), max_in)
                               ELSE inner_mult, max_in))])
    ELSE Ok([i \in DOMAIN img |->
               sqrt_pixel(img[i],
                          IF IsNone(inner_mult) THEN VDiv(Q(100), max_in)
                          ELSE inner_mult,
                          outer_mult, Q(1))])

sqrt_scale(img, min_out, max_out, inner_mult, outer_mult, min_in, max_in, units) ==
    IF VNe(min_out, Q(0)) /\ VNe(min_in, Q(0)) THEN Fail("RuntimeError")
    ELSE sqrt_mults(img, max_out, inner_mult, outer_mult,
                    IF units = "%" THEN VMul(max_in, Q(100)) ELSE max_in)

\* 273.15
KelvinOffset == Rat(27315, 100)

\* mutant: the low line is used on both sides of the threshold
brightness_temperature_scale_OneLine(img, threshold0, min_in0, max_in0, min_out, max_out, threshold_out0, units) ==
    LET celsius == units = "celsius"
        min_in == IF celsius THEN VSub(min_in0, KelvinOffset) ELSE min_in0
        max_in == IF celsius THEN VSub(max_in0, KelvinOffset) ELSE max_in0
        threshold == IF celsius THEN VSub(threshold0, KelvinOffset) ELSE threshold0
        threshold_out == IF ~IsNone(threshold_out0) THEN threshold_out0
                         ELSE VMul(Rat(176, 255), max_out)
    IN  IF VEq(min_in, threshold) \/ VEq(max_in, threshold)
        THEN Fail("ZeroDivisionError")   \* float division by zero
        ELSE
        LET low_factor == VDiv(VSub(threshold_out, max_out), VSub(min_in, threshold))
            low_offset == VAdd(max_out, VMul(low_factor, min_in))
            high_factor == VDiv(VSub(threshold_out, min_out), VSub(max_in, threshold))
            high_offset == VAdd(min_out, VMul(high_factor, max_in))
            F(x) == IF VGe(x, threshold) THEN VSub(low_offset, VMul(low_factor, x))
                    ELSE IF VLt(x, threshold) THEN VSub(low_offset, VMul(low_factor, x))
                    ELSE x
        IN  Ok([i \in DOMAIN img |-> F(img[i])])

brightness_temperature_scale(img, threshold0, min_in0, max_in0, min_out, max_out, threshold_out0, units) ==
    LET celsius == units = "celsius"
        min_in == IF celsius THEN VSub(min_in0, KelvinOffset) ELSE min_in0
        max_in == IF celsius THEN VSub(max_in0, KelvinOffset) ELSE max_in0
        threshold == IF celsius THEN VSub(threshold0, KelvinOffset) ELSE threshold0
        threshold_out == IF ~IsNone(threshold_out0) THEN threshold_out0
                         ELSE VMul(Rat(176, 255), max_out)
    IN  IF VEq(min_in, threshold) \/ VEq(max_in, threshold)
        THEN Fail("ZeroDivisionError")   \* float division by zero
        ELSE
        LET low_factor == VDiv(VSub(threshold_out, max_out), VSub(min_in, threshold))
            low_offset == VAdd(max_out, VMul(low_factor, min_in))
            high_factor == VDiv(VSub(threshold_out, min_out), VSub(max_in, threshold))
            high_offset == VAdd(min_out, VMul(high_factor, max_in))
            F(x) == IF VGe(x, threshold) THEN VSub(high_offset, VMul(high_factor, x))
                    ELSE IF VLt(x, threshold) THEN VSub(low_offset, VMul(low_factor, x))
                    ELSE x
        IN  Ok([i \in DOMAIN img |-> F(img[i])])

\* img[img > new_max] = new_max; img[img < new_min] = fill_out, for one pixel
lst_limits(x, new_min, new_max, fill_out) ==
    IF VGt(x, new_max)
    THEN (IF VLt(new_max, new_min) THEN Store(fill_out) ELSE new_max)
    ELSE IF VLt(x, new_min) THEN Store(fill_out) ELSE x

lst_finish(r, new_min, new_max, fill_out) ==
    IF r.exc # "none" THEN r
    ELSE [r EXCEPT !.img = [i \in DOMAIN r.img |->
                               lst_limits(r.img[i], new_min, new_max, fill_out)]]

lst_scale(img, min_out, max_out, min_in, max_in, fill_out, flip, offset) ==
    lst_finish(linear_flexible_scale(img, VAdd(min_out, Q(5)), VSub(max_out, Q(5)),
                                     min_in, max_in, flip, offset),
               VAdd(min_out, Q(5)), VSub(max_out, Q(5)), fill_out)

\* lookup_tables["crefl"]: control points, inputs and outputs
crefl_in == <<Q(0), Q(25), Q(55), Q(100), Q(255)>>
crefl_out == <<Q(0), Q(90), Q(140), Q(175), Q(255)>>

\* lookup_tables["crefl_old"]: pw_255_lookup_table, entry k of the array at
\* position k + 1
pw_255_lookup_table ==
    <<
      0, 3, 7, 10, 14, 18, 21, 25, 28, 32, 36, 39, 43, 46, 50, 54, 57,
      61, 64, 68, 72, 75, 79, 82, 86, 90, 91, 93, 95, 96, 98, 100,
      101, 103, 105, 106, 108, 110, 111, 113, 115, 116, 118, 120, 121,
      123, 125, 126, 128, 130, 131, 133, 135, 136, 138, 140, 140, 141,
      142, 143, 143, 144, 145, 146, 147, 147, 148, 149, 150, 150, 151,
      152, 153, 154, 154, 155, 156, 157, 157, 158, 159, 160, 161, 161,
      162, 163, 164, 164, 165, 166, 167, 168, 168, 169, 170, 171, 171,
      172, 173, 174, 175, 175, 176, 176, 177, 177, 178, 178, 179, 179,
      180, 180, 181, 181, 182, 182, 183, 183, 184, 184, 185, 185, 186,
      186, 187, 187, 188, 188, 189, 189, 190, 191, 191, 192, 192, 193,
      193, 194, 194, 195, 195, 196, 196, 197, 197, 198, 198, 199, 199,
      200, 200, 201, 201, 202, 202, 203, 203, 204, 204, 205, 205, 206,
      207, 207, 208, 208, 209, 209, 210, 210, 211, 211, 212, 212, 213,
      213, 214, 214, 215, 215, 216, 216, 217, 217, 218, 218, 219, 219,
      220, 220, 221, 221, 222, 223, 223, 224, 224, 225, 225, 226, 226,
      227, 227, 228, 228, 229, 229, 230, 230, 231, 231, 232, 232, 233,
      233, 234, 234, 235, 235, 236, 236, 237, 237, 238, 239, 239, 240,
      240, 241, 241, 242, 242, 243, 243, 244, 244, 245, 245, 246, 246,
      247, 247, 248, 248, 249, 249, 250, 250, 251, 251, 252, 252, 253,
      253, 254, 255
    >>

lookup_tables == {"crefl", "crefl_old"}

\* the value at x on segment k of the control points
interp_segment(x, xp, fp, k) ==
    VAdd(fp[k], VDiv(VMul(VSub(fp[k + 1], fp[k]), VSub(x, xp[k])),
                     VSub(xp[k + 1], xp[k])))

\* mutant: the output of the control point on the left, no interpolation
interp_Step(x, xp, fp) ==
    IF IsNaN(x) THEN NaN
    ELSE IF VLe(x, xp[1]) THEN fp[1]
    ELSE IF VGe(x, xp[Len(xp)]) THEN fp[Len(fp)]
    ELSE fp[CHOOSE k \in 1..(Len(xp) - 1) : VLe(xp[k], x) /\ VLt(x, xp[k + 1])]

\* numpy.interp(x, xp, fp) for increasing xp
interp(x, xp, fp) ==
    IF IsNaN(x) THEN NaN
    ELSE IF VLe(x, xp[1]) THEN fp[1]
    ELSE IF VGe(x, xp[Len(xp)]) THEN fp[Len(fp)]
    ELSE interp_segment(x, xp, fp,
             CHOOSE k \in 1..(Len(xp) - 1) : VLe(xp[k], x) /\ VLt(x, xp[k + 1]))

\* lines 218-219: clip to the table's input domain, then interpolate
lookup_interp(r) ==
    [r EXCEPT !.img = [i \in DOMAIN r.img |->
                         interp(NpClip(r.img[i], Q(0), Q(255)), crefl_in, crefl_out)]]

\* img.astype(numpy.uint32) of a clipped value: the fraction is dropped; the
\* cast of NaN is not defined, nan_cast is what the build makes of it
lookup_index(x, nan_cast) == IF IsNaN(x) THEN nan_cast ELSE x[1] \div x[2]

\* lines 225-226: clip to 0 .. len - 1, then index the table
lookup_dense(r, nan_cast) ==
    IF \E i \in DOMAIN r.img :
           lookup_index(NpClip(r.img[i], Q(0), Q(255)), nan_cast) >= Len(pw_255_lookup_table)
    THEN Fail("IndexError")
    ELSE [r EXCEPT !.img = [i \in DOMAIN r.img |->
             Q(pw_255_lookup_table[
                 lookup_index(NpClip(r.img[i], Q(0), Q(255)), nan_cast) + 1])]]

\* lines 220 and 227: the table's output domain onto the output range, the
\* keyword arguments of the call passed on
lookup_rescale(r, second) == [second EXCEPT !.log = r.log \o second.log]

lookup_finish(r, min_out, max_out, flip, offset) ==
    IF r.exc # "none" THEN r
    ELSE lookup_rescale(r,
             linear_flexible_scale(r.img, min_out, max_out, Q(0), Q(255), flip, offset))

lookup_scale(img, min_out, max_out, min_in, max_in, table_name, flip, offset, nan_cast) ==
    IF table_name \notin lookup_tables THEN Fail("KeyError")
    ELSE IF table_name = "crefl"
    THEN lookup_finish(
             lookup_interp(linear_flexible_scale(img, Q(0), Q(255), min_in, max_in,
                                                 FALSE, Q(0))),
             min_out, max_out, flip, offset)
    ELSE lookup_finish(
             lookup_dense(linear_flexible_scale(img, Q(0), Q(255), min_in, max_in,
                                                FALSE, Q(0)), nan_cast),
             min_out, max_out, flip, offset)

\* lines 299-300 for one pixel: the two assignments in their order
temperature_difference_limits(x, clip_min, clip_max) ==
    IF VLt(x, clip_min)
    THEN (IF VGt(VSub(clip_min, Q(1)), clip_max) THEN VAdd(clip_max, Q(1))
          ELSE VSub(clip_min, Q(1)))
    ELSE IF VGt(x, clip_max) THEN VAdd(clip_max, Q(1)) ELSE x

temperature_difference_finish(r, clip_min, clip_max) ==
    [r EXCEPT !.img = [i \in DOMAIN r.img |->
                         temperature_difference_limits(r.img[i], clip_min, clip_max)]]

temperature_difference_scale(img, min_in, max_in, min_out, max_out) ==
    temperature_difference_finish(
        linear_flexible_scale(img, VAdd(min_out, Q(5)),
                              VMul(Rat(8, 10), VSub(max_out, min_out)),
                              min_in, max_in, FALSE, Q(0)),
        VAdd(min_out, Q(5)), VMul(Rat(8, 10), VSub(max_out, min_out)))

\* lines 346-347: each part is scaled on its own and stored back
ndvi_parts(clipped, low_mask, high_mask, low, high) ==
    [exc |-> "none",
     img |-> Scatter(Scatter(clipped, low_mask, low.img), high_mask, high.img),
     log |-> low.log \o high.log]

\* lines 336-347 on the clipped array
ndvi_split(clipped, low_mask, high_mask, min_out, max_out, min_in, max_in, threshold, threshold_out) ==
    ndvi_parts(clipped, low_mask, high_mask,
        linear_flexible_scale(Extract(clipped, low_mask), min_out, threshold_out,
                              min_in, threshold, FALSE, Q(0)),
        linear_flexible_scale(Extract(clipped, high_mask), threshold_out, max_out,
                              threshold, max_in, FALSE, Q(0)))

\* mutant: the pixels at the threshold go to the low part
ndvi_masks_AtThresholdLow(clipped, min_out, max_out, min_in, max_in, threshold, threshold_out) ==
    ndvi_split(clipped,
        [i \in DOMAIN clipped |-> VLe(clipped[i], threshold)],
        [i \in DOMAIN clipped |-> VGt(clipped[i], threshold)],
        min_out, max_out, min_in, max_in, threshold, threshold_out)

\* lines 339-340: negative_mask and pos_zero_mask
ndvi_masks(clipped, min_out, max_out, min_in, max_in, threshold, threshold_out) ==
    ndvi_split(clipped,
        [i \in DOMAIN clipped |-> VLt(clipped[i], threshold)],
        [i \in DOMAIN clipped |-> VGe(clipped[i], threshold)],
        min_out, max_out, min_in, max_in, threshold, threshold_out)

ndvi_scale(img, min_out, max_out, min_in, max_in, threshold, threshold_out) ==
    ndvi_masks([i \in DOMAIN img |-> NpClip(img[i], min_in, max_in)],
               min_out, max_out, min_in, max_in, threshold,
               IF ~IsNone(threshold_out) THEN threshold_out
               ELSE VMul(Rat(49, 255), max_out))

\* values of the "colormap" option: no colormap (Python None), a trollimage
\* Colormap object, or some other object
NoColormap == "None"
ColormapObject == "Colormap"
OtherObject == "object"

\* mutant: the shift of the values from 200 on comes first
water_temp_palettize_ShiftFirst(img, colormap) ==
    IF colormap = NoColormap THEN Fail("ValueError")
    ELSE IF colormap # ColormapObject THEN Fail("ValueError")
    ELSE
    LET a1 == [i \in DOMAIN img |-> IF VGe(img[i], Q(200)) THEN VSub(img[i], Q(100)) ELSE img[i]]
        a2 == [i \in DOMAIN a1 |-> IF VEq(a1[i], Q(150)) THEN Q(31) ELSE a1[i]]
        a3 == [i \in DOMAIN a2 |-> IF VEq(a2[i], Q(199)) THEN Q(18) ELSE a2[i]]
    IN  Ok(a3)

water_temp_palettize(img, colormap) ==
    IF colormap = NoColormap THEN Fail("ValueError")
    ELSE IF colormap # ColormapObject THEN Fail("ValueError")
    ELSE
    LET a1 == [i \in DOMAIN img |-> IF VEq(img[i], Q(150)) THEN Q(31) ELSE img[i]]
        a2 == [i \in DOMAIN a1 |-> IF VEq(a1[i], Q(199)) THEN Q(18) ELSE a1[i]]
        a3 == [i \in DOMAIN a2 |-> IF VGe(a2[i], Q(200)) THEN VSub(a2[i], Q(100)) ELSE a2[i]]
    IN  Ok(a3)

----------------------------------------------------------------------------
(* Rescaler: the method catalog and the masked application layer *)

\* Rescaler.rescale_methods (the methods modelled here)
rescale_methods ==
    {"linear", "linear_basic", "brightness_temperature", "raw", "lst",
     "water_temp_palettize", "sqrt", "unlinear", "ndvi",
     "temperature_difference"}

\* parameters without a default in each function's signature (besides img)
RequiredArgs(name) ==
    CASE name = "linear" -> {"min_out", "max_out"}
      [] name = "linear_basic" -> {"m", "b"}
      [] name = "brightness_temperature" ->
             {"threshold", "min_in", "max_in", "min_out", "max_out"}
      [] name = "lst" -> {"min_out", "max_out", "min_in", "max_in", "fill_out"}
      [] name = "water_temp_palettize" -> {"min_out", "max_out"}
      [] name = "sqrt" -> {"min_out", "max_out"}
      [] name = "unlinear" -> {"m", "b"}
      [] name = "ndvi" -> {"min_out", "max_out"}
      [] name = "temperature_difference" -> {"min_in", "max_in", "min_out", "max_out"}
      [] OTHER -> {}

\* rescale_func(img, **rescale_options): Python binds the keyword arguments,
\* a missing required one is a TypeError
CallMethod(name, img, o) ==
    IF ~(RequiredArgs(name) \subseteq DOMAIN o) THEN Fail("TypeError")
    ELSE CASE name = "linear" ->
                linear_flexible_scale(img, o["min_out"], o["max_out"],
                    Get(o, "min_in", None), Get(o, "max_in", None),
                    Get(o, "flip", FALSE), Get(o, "offset", Q(0)))
           [] name = "linear_basic" -> linear_scale(img, o["m"], o["b"])
           [] name = "raw" -> passive_scale(img)
           [] name = "brightness_temperature" ->
                brightness_temperature_scale(img, o["threshold"], o["min_in"],
                    o["max_in"], o["min_out"], o["max_out"],
                    Get(o, "threshold_out", None), Get(o, "units", "kelvin"))
           [] name = "lst" ->
                lst_scale(img, o["min_out"], o["max_out"], o["min_in"], o["max_in"],
                    o["fill_out"], Get(o, "flip", FALSE), Get(o, "offset", Q(0)))
           [] name = "water_temp_palettize" ->
                water_temp_palettize(img, Get(o, "colormap", NoColormap))
           [] name = "sqrt" ->
                sqrt_scale(img, o["min_out"], o["max_out"],
                    Get(o, "inner_mult", None), Get(o, "outer_mult", None),
                    Get(o, "min_in", Q(0)), Get(o, "max_in", Q(1)),
                    Get(o, "units", "None"))
           [] name = "unlinear" -> unlinear_scale(img, o["m"], o["b"])
           [] name = "ndvi" ->
                ndvi_scale(img, o["min_out"], o["max_out"],
                    Get(o, "min_in", Q(-1)), Get(o, "max_in", Q(1)),
                    Get(o, "threshold", Q(0)), Get(o, "threshold_out", None))
           [] name = "temperature_difference" ->
                temperature_difference_scale(img, o["min_in"], o["max_in"],
                    o["min_out"], o["max_out"])

\* mutant: an exact match on the method name instead of a substring test
IsColormapped_ExactName(name) == name \in {"palettize", "colorize"}

\* 'palettize' in method or 'colorize' in method (substring test)
IsColormapped(name) == name \in {"palettize", "colorize", "water_temp_palettize"}

mask_helper(img, fill) ==
    IF IsNaN(fill) THEN [i \in 1..Len(img) |-> IsNaN(img[i])]
    ELSE [i \in 1..Len(img) |-> VEq(img[i], fill)]

\* exceptions the except clause of _rescale_data catches
Caught == {"ValueError", "KeyError", "RuntimeError"}

\* what _rescale_data leaves behind: the exception or the returned array,
\* the caller's buffer and mask (both changed in place), the scaled values
\* as rescale_func returned them, and the log records written
Leaves(exc, rt, d, mask, scaled, lg) ==
    [raised |-> exc, ret |-> rt, data |-> d, good_data_mask |-> mask,
     good_data |-> scaled, log |-> lg]

\* exception e raised inside the try block: logged only when caught
Raise(e, d, mask, lg) ==
    Leaves(e, <<>>, d, mask, <<>>, IF e \in Caught THEN lg \o <<"ERROR">> ELSE lg)

\* mutant: the clip step is skipped
ClipGood_NoClip(good, o, mclip, inc, czero) == good

\* mutant: the zero-floor special case is never taken
ClipGood_NoZeroFloor(good, o, mclip, inc, czero) ==
    LET g1 == IF mclip \in {"both", "min", "True"}
              THEN [i \in DOMAIN good |-> IF VLt(good[i], o["min_out"]) THEN NaN ELSE good[i]]
              ELSE good
        g2 == IF mclip \in {"both", "max", "True"}
              THEN [i \in DOMAIN g1 |-> IF VGt(g1[i], o["max_out"]) THEN NaN ELSE g1[i]]
              ELSE g1
    IN  [i \in DOMAIN g2 |-> NpClip(g2[i], o["min_out"], o["max_out"])]

\* mutant: out-of-range results are masked whatever mask_clip is
ClipGood_AlwaysMask(good, o, mclip, inc, czero) ==
    LET g1 == [i \in DOMAIN good |-> IF VLt(good[i], o["min_out"]) THEN NaN ELSE good[i]]
        g2 == [i \in DOMAIN g1 |-> IF VGt(g1[i], o["max_out"]) THEN NaN ELSE g1[i]]
    IN  IF czero /\ VEq(o["min_out"], Q(0)) /\ ~inc
        THEN [i \in DOMAIN g2 |-> NpClip(g2[i], Q(1), o["max_out"])]
        ELSE [i \in DOMAIN g2 |-> NpClip(g2[i], o["min_out"], o["max_out"])]

\* mutant: the "min" and "max" modes are exchanged
ClipGood_SwapMinMax(good, o, mclip, inc, czero) ==
    LET g1 == IF mclip \in {"both", "max", "True"}
              THEN [i \in DOMAIN good |-> IF VLt(good[i], o["min_out"]) THEN NaN ELSE good[i]]
              ELSE good
        g2 == IF mclip \in {"both", "min", "True"}
              THEN [i \in DOMAIN g1 |-> IF VGt(g1[i], o["max_out"]) THEN NaN ELSE g1[i]]
              ELSE g1
    IN  IF czero /\ VEq(o["min_out"], Q(0)) /\ ~inc
        THEN [i \in DOMAIN g2 |-> NpClip(g2[i], Q(1), o["max_out"])]
        ELSE [i \in DOMAIN g2 |-> NpClip(g2[i], o["min_out"], o["max_out"])]

\* lines 528-539: mask-clip, then clip
ClipGood(good, o, mclip, inc, czero) ==
    LET g1 == IF mclip \in {"both", "min", "True"}
              THEN [i \in DOMAIN good |-> IF VLt(good[i], o["min_out"]) THEN NaN ELSE good[i]]
              ELSE good
        g2 == IF mclip \in {"both", "max", "True"}
              THEN [i \in DOMAIN g1 |-> IF VGt(g1[i], o["max_out"]) THEN NaN ELSE g1[i]]
              ELSE g1
    IN  IF czero /\ VEq(o["min_out"], Q(0)) /\ ~inc
        THEN [i \in DOMAIN g2 |-> NpClip(g2[i], Q(1), o["max_out"])]
        ELSE [i \in DOMAIN g2 |-> NpClip(g2[i], o["min_out"], o["max_out"])]

\* mutant: the increment is applied to the whole buffer (data += 1)
WriteBack_IncAll(d, mask, good, fill, inc) ==
    LET d1 == Scatter(d, mask, good)
        nan == mask_helper(d1, NaN)
        m1 == [i \in 1..Len(mask) |-> mask[i] /\ ~nan[i]]
        d2 == [i \in 1..Len(d1) |-> IF ~m1[i] THEN Store(fill) ELSE d1[i]]
        d3 == IF inc THEN [i \in 1..Len(d2) |-> VAdd(d2[i], Q(1))] ELSE d2
    IN  [raised |-> "none", ret |-> d3, data |-> d3, good_data_mask |-> m1]

\* mutant: the increment is forgotten
WriteBack_NoInc(d, mask, good, fill, inc) ==
    LET d1 == Scatter(d, mask, good)
        nan == mask_helper(d1, NaN)
        m1 == [i \in 1..Len(mask) |-> mask[i] /\ ~nan[i]]
        d2 == [i \in 1..Len(d1) |-> IF ~m1[i] THEN Store(fill) ELSE d1[i]]
    IN  [raised |-> "none", ret |-> d2, data |-> d2, good_data_mask |-> m1]

\* mutant: the mask is recomputed from the NaNs alone (=, not &=)
WriteBack_MaskFromNaN(d, mask, good, fill, inc) ==
    LET d1 == Scatter(d, mask, good)
        nan == mask_helper(d1, NaN)
        m1 == [i \in 1..Len(mask) |-> ~nan[i]]
        d2 == [i \in 1..Len(d1) |-> IF ~m1[i] THEN Store(fill) ELSE d1[i]]
        d3 == IF inc THEN [i \in 1..Len(d2) |-> IF m1[i] THEN VAdd(d2[i], Q(1)) ELSE d2[i]]
              ELSE d2
    IN  [raised |-> "none", ret |-> d3, data |-> d3, good_data_mask |-> m1]

\* lines 541-552: write back, recompute the mask, fill, increment
WriteBack(d, mask, good, fill, inc) ==
    LET d1 == Scatter(d, mask, good)
        nan == mask_helper(d1, NaN)
        m1 == [i \in 1..Len(mask) |-> mask[i] /\ ~nan[i]]
        d2 == [i \in 1..Len(d1) |-> IF ~m1[i] THEN Store(fill) ELSE d1[i]]
        d3 == IF inc THEN [i \in 1..Len(d2) |-> IF m1[i] THEN VAdd(d2[i], Q(1)) ELSE d2[i]]
              ELSE d2
    IN  [raised |-> "none", ret |-> d3, data |-> d3, good_data_mask |-> m1]

\* lines 541-552, w being the written-back buffer and mask
Written(r, w) ==
    Leaves("none", w.ret, w.data, w.good_data_mask, r.img, r.log)

\* mutant: the scaled values are written back before the clip looks up
\* min_out and max_out
AfterCall_WriteFirst(meth, r, d, mask, o, fill, clp, mclip, inc, czero) ==
    IF r.exc # "none" THEN Raise(r.exc, d, mask, r.log)
    ELSE IF IsColormapped(meth)
    THEN Leaves("none", r.img, r.img, mask, r.img, r.log)
    ELSE IF clp /\ ~({"min_out", "max_out"} \subseteq DOMAIN o)
    THEN Raise("KeyError", WriteBack(d, mask, r.img, fill, inc).data,
               WriteBack(d, mask, r.img, fill, inc).good_data_mask, r.log)
    ELSE Written(r, WriteBack(d, mask,
                              IF clp THEN ClipGood(r.img, o, mclip, inc, czero)
                              ELSE r.img, fill, inc))

\* lines 515-552, r being what rescale_func returned or raised
AfterCall(meth, r, d, mask, o, fill, clp, mclip, inc, czero) ==
    IF r.exc # "none" THEN Raise(r.exc, d, mask, r.log)
    ELSE IF IsColormapped(meth)
    THEN Leaves("none", r.img, r.img, mask, r.img, r.log)
    ELSE IF clp /\ ~({"min_out", "max_out"} \subseteq DOMAIN o)
    THEN Raise("KeyError", d, mask, r.log)
    ELSE Written(r, WriteBack(d, mask,
                              IF clp THEN ClipGood(r.img, o, mclip, inc, czero)
                              ELSE r.img, fill, inc))

\* self.rescale_methods[method]: register_rescale_method stores the tuple
\* (func, kwargs) under the name (line 510), the built-in entries are functions
Lookup(meth) ==
    IF meth \in registered THEN "tuple"
    ELSE IF meth \in rescale_methods THEN "function"
    ELSE "missing"

\* rescale_func(...): a missing name is a KeyError at line 516, a tuple is
\* not callable
CallEntry(entry, meth, img, o) ==
    IF entry = "missing" THEN Fail("KeyError")
    ELSE IF entry = "tuple" THEN Fail("TypeError")
    ELSE CallMethod(meth, img, o)

_rescale_data(meth, d, mask, o, fill, clp, mclip, inc, czero) ==
    AfterCall(meth,
              CallEntry(Lookup(meth), meth,
                        IF IsColormapped(meth) THEN d ELSE Extract(d, mask), o),
              d, mask, o, fill, clp, mclip, inc, czero)

----------------------------------------------------------------------------
(* Rule resolution *)

\* Rescaler.id_fields
id_fields ==
    <<"product_name", "data_type", "data_kind", "satellite", "instrument",
      "grid_name", "inc_by_one", "units", "reader">>

\* polar2grid.core.dtype.dtype_to_str: numpy type -> polar2grid type name
dtype_to_str(t) ==
    CASE t = "uint8" -> "uint1"
      [] t = "int8" -> "int1"
      [] t = "uint16" -> "uint2"
      [] OTHER -> t

\* polar2grid.core.dtype.dtype2range: representable range of a type
dtype2range(t) ==
    CASE t = "uint1" -> <<Q(0), Q(255)>>
      [] t = "int1" -> <<Q(-128), Q(127)>>
      [] t = "uint2" -> <<Q(0), Q(65535)>>

\* a rule matches when every attribute it keys on equals the product's
RuleMatches(rule, kwargs) ==
    \A k \in DOMAIN rule.key : rule.key[k] = kwargs[k]

\* roles.INIConfigReader.get_config_options: the options of the most
\* specific matching rule (of the later-loaded one among equally specific
\* rules) together with the inc_by_one flag asked for; without a matching
\* rule there is no "method"
get_config_options(cfg, kwargs) ==
    LET M == {i \in 1..Len(cfg) : RuleMatches(cfg[i], kwargs)}
        Specificity(i) == Cardinality(DOMAIN cfg[i].key)
        best == CHOOSE i \in M :
                    \A j \in M : \/ Specificity(j) < Specificity(i)
                                 \/ (Specificity(j) = Specificity(i) /\ j <= i)
    IN  IF M = {} THEN ("inc_by_one" :> kwargs["inc_by_one"])
        ELSE Put(cfg[best].options, "inc_by_one", kwargs["inc_by_one"])

\* d.setdefault(k, v)
SetDefault(d, k, v) == IF k \in DOMAIN d THEN d ELSE Put(d, k, v)

\* lines 576-590: a colormap given by name or file is loaded, a Colormap
\* object is kept, anything else is a ValueError
ResolveColormap(o) ==
    IF ~Has(o, "colormap") \/ Get(o, "colormap", NoColormap) = NoColormap
    THEN [exc |-> "none", opts |-> o]
    ELSE IF o["colormap"] = OtherObject THEN [exc |-> "ValueError", opts |-> o]
    ELSE [exc |-> "none", opts |-> Put(o, "colormap", ColormapObject)]

\* mutant: a rule set that yields no method goes unnoticed
MissingMethod_Never(o) == FALSE

\* line 565: "method" not in rescale_options
MissingMethod(o) == ~Has(o, "method")

\* mutant: the top of the range is not reduced for inc_by_one
RangeDefaults_NoReduce(o, range) ==
    SetDefault(SetDefault(o, "min_out", range[1]), "max_out", range[2])

\* lines 570-572: min_out / max_out default to the range of the output type
RangeDefaults(o, range) ==
    LET o1 == SetDefault(o, "min_out", range[1])
    IN  SetDefault(o1, "max_out",
                   IF o1["inc_by_one"] THEN VSub(range[2], Q(1)) ELSE range[2])

\* mutant: the product's own data_type is looked up, not the output type
LookupKwargs_OwnType(product, dtype, inc) ==
    [k \in {id_fields[i] : i \in 1..Len(id_fields)} |->
        IF k = "inc_by_one" THEN inc ELSE Get(product, k, "None")]

\* lines 558-563: the identification attributes the rule set is searched with
LookupKwargs(product, dtype, inc) ==
    [k \in {id_fields[i] : i \in 1..Len(id_fields)} |->
        IF k = "data_type" THEN dtype_to_str(dtype)
        ELSE IF k = "inc_by_one" THEN inc
        ELSE Get(product, k, "None")]

\* Rescaler.get_rescale_options(gridded_product, data_type, inc_by_one, fill_value)
get_rescale_options(cfg, product, dtype, inc, fill) ==
    LET kwargs == LookupKwargs(product, dtype, inc)
        o0 == get_config_options(cfg, kwargs)
    IN  IF MissingMethod(o0)
        THEN [raised |-> "ValueError", exc_args |-> <<product["product_name"]>>,
              log |-> <<"ERROR">>, opts |-> EmptyDict]
        ELSE
        LET o2 == RangeDefaults(o0, dtype2range(kwargs["data_type"]))
            o3 == SetDefault(o2, "units", Get(product, "units", "kelvin"))
            o4 == Put(o3, "fill_out", fill)
            c == ResolveColormap(o4)
        IN  IF c.exc # "none"
            THEN [raised |-> c.exc, exc_args |-> <<"colormap">>, log |-> <<>>,
                  opts |-> EmptyDict]
            ELSE [raised |-> "none", exc_args |-> <<>>, log |-> <<>>, opts |-> c.opts]

----------------------------------------------------------------------------
(* Inputs of the modelled calls *)

\* the range a trollimage colormap has when the module is imported
UnitRange == <<Q(0), Q(1)>>

\* a pixel value the palette remapping changes, far above every output range
BigIn == 150

InVals == {NaN} \cup {Q(i) : i \in (-1..MaxIn) \cup {BigIn}}
\* an invalid pixel holds the input fill (NaN) or a stale number
Pixels == [v : InVals, ok : {TRUE}] \cup [v : {NaN, Q(0)}, ok : {FALSE}]
Buffers == [1..NPix -> Pixels]

\* output ranges given to _rescale_data, <<min_out, max_out>>: an unsigned
\* and a signed one, a one-value range, and one with min_out > max_out
OutRanges ==
    {<<Q(0), Q(MaxOut)>>, <<Q(-1), Q(MaxOut - 1)>>, <<Q(0), Q(0)>>,
     <<Q(MaxOut), Q(0)>>}

FillValues == {NaN, Q(-1), Q(0)}
MaskClips == {"None", "min", "max", "both"}

\* method name and the method's own parameters, as a rule would give them
MethodCases ==
    {[method |-> "raw", opts |-> EmptyDict],
     [method |-> "linear_basic", opts |-> ("m" :> Q(2)) @@ ("b" :> Q(1))],
     [method |-> "linear", opts |-> EmptyDict],
     [method |-> "lst", opts |-> ("min_in" :> Q(-1)) @@ ("max_in" :> Q(0))],
     [method |-> "brightness_temperature",
      opts |-> ("threshold" :> Q(0)) @@ ("min_in" :> Q(-1)) @@ ("max_in" :> Q(BigIn))],
     [method |-> "water_temp_palettize", opts |-> ("colormap" :> ColormapObject)]}

WithRange(o, r) == o @@ ("min_out" :> r[1]) @@ ("max_out" :> r[2])

\* calls that fail: an unknown method, equal input bounds, no colormap, no
\* min_out / max_out in the options
FailingCases ==
    {[method |-> "bogus", opts |-> WithRange(EmptyDict, <<Q(0), Q(MaxOut)>>)],
     [method |-> "brightness_temperature",
      opts |-> WithRange(("threshold" :> Q(0)) @@ ("min_in" :> Q(0))
                             @@ ("max_in" :> Q(BigIn)), <<Q(0), Q(MaxOut)>>)],
     [method |-> "water_temp_palettize",
      opts |-> WithRange(EmptyDict, <<Q(0), Q(MaxOut)>>)],
     [method |-> "raw", opts |-> EmptyDict],
     [method |-> "linear", opts |-> EmptyDict]}

\* 'lst' with an output range wide enough for its margins of 5
LstCases ==
    {[method |-> "lst",
      opts |-> WithRange(("min_in" :> lim[1]) @@ ("max_in" :> lim[2]),
                         <<Q(0), Q(20)>>)] :
        lim \in {<<Q(-1), Q(0)>>, <<Q(0), Q(BigIn)>>}}

OptionCases ==
    {[method |-> mc.method, opts |-> WithRange(mc.opts, r)] :
        mc \in MethodCases, r \in OutRanges} \cup FailingCases \cup LstCases

NoRet == <<>>

----------------------------------------------------------------------------
(* The masked application layer called on its own *)

Init ==
    /\ pc = "ready"
    /\ config = <<>>
    /\ gridded_product = EmptyDict
    /\ data_type = "None"
    /\ exc_args = <<>>
    /\ \E oc \in OptionCases, fill \in FillValues :
          /\ method = oc.method
          /\ fill_value = fill
          /\ rescale_options =
                IF oc.method = "lst" THEN oc.opts @@ ("fill_out" :> fill) ELSE oc.opts
    /\ clip \in BOOLEAN
    /\ mask_clip \in MaskClips
    /\ inc_by_one \in BOOLEAN
    /\ clip_zero \in BOOLEAN
    /\ \E b \in Buffers :
          /\ in_data = [i \in 1..NPix |-> b[i].v]
          /\ in_mask = [i \in 1..NPix |-> b[i].ok]
    /\ data = in_data
    /\ good_data_mask = in_mask
    /\ good_data = <<>>
    /\ ret = NoRet
    /\ raised = "none"
    /\ log = <<>>
    /\ preresolved = FALSE
    /\ registered = {}
    /\ palette = UnitRange
    /\ calls = <<>>

\* Rescaler._rescale_data(method, data, good_data_mask, rescale_options,
\*                        fill_value, clip, mask_clip, inc_by_one, clip_zero)
RescaleData ==
    /\ pc = "ready"
    /\ \E r \in {_rescale_data(method, data, good_data_mask, rescale_options,
                               fill_value, clip, mask_clip, inc_by_one, clip_zero)} :
           /\ data' = r.data
           /\ good_data_mask' = r.good_data_mask
           /\ good_data' = r.good_data
           /\ ret' = r.ret
           /\ raised' = r.raised
           /\ log' = log \o r.log
    /\ pc' = "done"
    /\ UNCHANGED <<config, gridded_product, data_type, exc_args, method,
                   rescale_options, fill_value, clip, mask_clip, inc_by_one,
                   clip_zero, in_data, in_mask>>
    /\ UNCHANGED facade_vars

Next == RescaleData

Spec == Init /\ [][Next]_vars

----------------------------------------------------------------------------
(* Rule resolution called on its own *)

Rule(key, options) == [key |-> key, options |-> options]

\* rule sets, in load order
BaseConfig ==
    <<Rule(("product_name" :> "p1"),
          ("method" :> "linear") @@ ("min_in" :> Q(0)) @@ ("max_in" :> Q(1))),
     Rule(("data_kind" :> "btemp"),
          ("method" :> "brightness_temperature") @@ ("threshold" :> Q(242))
              @@ ("min_in" :> Q(163)) @@ ("max_in" :> Q(330))),
     Rule(("product_name" :> "p2") @@ ("inc_by_one" :> TRUE),
          ("method" :> "raw") @@ ("min_out" :> Q(1)) @@ ("max_out" :> Q(10))),
     Rule(("product_name" :> "p3"),
          ("method" :> "linear") @@ ("min_out" :> Q(255))),
     Rule(("product_name" :> "p4"),
          ("method" :> "linear") @@ ("min_in" :> Q(0)) @@ ("max_in" :> Q(1))
              @@ ("max_out" :> Q(255)))>>

TypedConfig ==
    <<Rule(("data_type" :> "uint1"),
          ("method" :> "linear") @@ ("max_out" :> Q(200))),
     Rule(("product_name" :> "p1") @@ ("data_type" :> "uint1"),
          ("method" :> "water_temp_palettize") @@ ("colormap" :> "rainbow")),
     Rule(("product_name" :> "p2") @@ ("data_type" :> "uint1"),
          ("method" :> "palettize") @@ ("colormap" :> OtherObject)),
     Rule(("product_name" :> "p3") @@ ("data_kind" :> "btemp"),
          ("clip" :> FALSE) @@ ("min_out" :> Q(5)))>>

Configs == {BaseConfig, TypedConfig, <<>>}

Products ==
    {("product_name" :> n) @@ ("data_kind" :> k) @@ ("grid_name" :> "g") @@ u :
        n \in {"p1", "p2", "p3", "p4"}, k \in {"reflectance", "btemp"},
        u \in {EmptyDict, ("units" :> "celsius")}}

InitOptions ==
    /\ pc = "ready"
    /\ config \in Configs
    /\ gridded_product \in Products
    /\ data_type \in {"uint8", "int8", "uint16"}
    /\ inc_by_one \in BOOLEAN
    /\ fill_value \in FillValues \cup {None}
    /\ exc_args = <<>>
    /\ method = "None"
    /\ rescale_options = EmptyDict
    /\ clip = TRUE
    /\ mask_clip = "None"
    /\ clip_zero = FALSE
    /\ in_data = <<>>
    /\ in_mask = <<>>
    /\ data = <<>>
    /\ good_data_mask = <<>>
    /\ good_data = <<>>
    /\ ret = NoRet
    /\ raised = "none"
    /\ log = <<>>
    /\ preresolved = FALSE
    /\ registered = {}
    /\ palette = UnitRange
    /\ calls = <<>>

\* rescale_options = self.get_rescale_options(gridded_product, data_type,
\*                                            inc_by_one, fill_value)
GetRescaleOptions ==
    /\ pc = "ready"
    /\ \E r \in {get_rescale_options(config, gridded_product, data_type,
                                     inc_by_one, fill_value)} :
           /\ rescale_options' = r.opts
           /\ raised' = r.raised
           /\ exc_args' = r.exc_args
           /\ log' = log \o r.log
    /\ pc' = "done"
    /\ UNCHANGED <<config, gridded_product, data_type, method, fill_value, clip,
                   mask_clip, inc_by_one, clip_zero, in_data, in_mask, data,
                   good_data_mask, good_data, ret>>
    /\ UNCHANGED facade_vars

NextOptions == GetRescaleOptions

SpecOptions == InitOptions /\ [][NextOptions]_vars

----------------------------------------------------------------------------
(* The facade: Rescaler.rescale_product.  A buffer is a sequence of bands, *)
(* three for an RGB stack (data.ndim == 3) and one otherwise.              *)

\* what rescale_product leaves behind: the exception or the returned stack,
\* the method and flags it popped, and the options mapping as it is then
Outcome(exc, args, rt, o, meth, clp, mclip, lg) ==
    [raised |-> exc, exc_args |-> args, ret |-> rt, opts |-> o,
     method |-> meth, clip |-> clp, mask_clip |-> mclip, log |-> lg]

\* numpy.concatenate of the three results; the first exception ends the call
Stacked(r1, r2, r3, o, meth, clp, mclip) ==
    IF r1.raised # "none"
    THEN Outcome(r1.raised, <<>>, <<>>, o, meth, clp, mclip, r1.log)
    ELSE IF r2.raised # "none"
    THEN Outcome(r2.raised, <<>>, <<>>, o, meth, clp, mclip, r1.log \o r2.log)
    ELSE IF r3.raised # "none"
    THEN Outcome(r3.raised, <<>>, <<>>, o, meth, clp, mclip,
                 r1.log \o r2.log \o r3.log)
    ELSE Outcome("none", <<>>, <<r1.ret, r2.ret, r3.ret>>, o, meth, clp, mclip,
                 r1.log \o r2.log \o r3.log)

\* mutant: the third call is handed the second band again
FanOut_BandSlip(meth, buf, mask, o, fill, clp, mclip, inc, czero) ==
    Stacked(_rescale_data(meth, buf[1], mask[1], o, fill, clp, mclip, inc, czero),
            _rescale_data(meth, buf[2], mask[2], o, fill, clp, mclip, inc, czero),
            _rescale_data(meth, buf[2], mask[2], o, fill, clp, mclip, inc, czero),
            o, meth, clp, mclip)

\* lines 617-622: one _rescale_data call per band, same arguments otherwise
FanOut(meth, buf, mask, o, fill, clp, mclip, inc, czero) ==
    Stacked(_rescale_data(meth, buf[1], mask[1], o, fill, clp, mclip, inc, czero),
            _rescale_data(meth, buf[2], mask[2], o, fill, clp, mclip, inc, czero),
            _rescale_data(meth, buf[3], mask[3], o, fill, clp, mclip, inc, czero),
            o, meth, clp, mclip)

\* the elements of all bands in order, and the bands cut out of them again
Flat(buf) == IF Len(buf) = 3 THEN buf[1] \o buf[2] \o buf[3] ELSE buf[1]
Bands(flat, buf) ==
    IF flat = <<>> \/ Len(buf) # 3 THEN <<flat>>
    ELSE <<SubSeq(flat, 1, Len(buf[1])),
           SubSeq(flat, Len(buf[1]) + 1, Len(buf[1]) + Len(buf[2])),
           SubSeq(flat, Len(buf[1]) + Len(buf[2]) + 1, Len(flat))>>

Whole(r, buf, o, meth, clp, mclip) ==
    Outcome(r.raised, <<>>, IF r.raised = "none" THEN Bands(r.ret, buf) ELSE <<>>,
            o, meth, clp, mclip, r.log)

\* lines 614-625, the mapping o being what is left after the pops
Applied(meth, clp, mclip, inc, o, buf, mask, fill, czero) ==
    IF Get(o, "separate_rgb", TRUE) = TRUE /\ Len(buf) = 3
    THEN FanOut(meth, buf, mask, o, fill, clp, mclip, inc, czero)
    ELSE Whole(_rescale_data(meth, Flat(buf), Flat(mask), o, fill, clp, mclip,
                             inc, czero),
               buf, o, meth, clp, mclip)

\* lines 608-611: the four pops
Popped(o) == Pop(Pop(Pop(Pop(o, "method"), "clip"), "mask_clip"), "inc_by_one")

\* lines 605-636, g being the options handed in or the outcome of resolving
\* them
Facade(g, product, buf, mask, fill, czero) ==
    IF g.raised # "none"
    THEN Outcome(g.raised, g.exc_args, <<>>, g.opts, "None", TRUE, "None", g.log)
    ELSE IF ~Has(g.opts, "method")
    THEN Outcome("KeyError", <<"method">>, <<>>, g.opts, "None", TRUE, "None", g.log)
    ELSE IF ~Has(g.opts, "inc_by_one")
    THEN Outcome("KeyError", <<"inc_by_one">>, <<>>,
                 Pop(Pop(Pop(g.opts, "method"), "clip"), "mask_clip"),
                 g.opts["method"], Get(g.opts, "clip", TRUE),
                 Get(g.opts, "mask_clip", "None"), g.log)
    ELSE Applied(g.opts["method"], Get(g.opts, "clip", TRUE),
                 Get(g.opts, "mask_clip", "None"), g.opts["inc_by_one"],
                 Put(Popped(g.opts), "attrs", product), buf, mask, fill, czero)

\* Rescaler.rescale_product(gridded_product, data_type, inc_by_one, fill_value,
\*                          rescale_options, clip_zero)
rescale_product(cfg, product, buf, mask, dtype, inc, fill, given, opts, czero) ==
    Facade(IF given
           THEN [raised |-> "none", exc_args |-> <<>>, log |-> <<>>, opts |-> opts]
           ELSE get_rescale_options(cfg, product, dtype, inc, fill),
           product, buf, mask, fill, czero)

\* one-pixel bands, and the buffers made of them: RGB stacks and 2-D images
BandPixels == {<<px>> : px \in Pixels}
Stacks == [1..3 -> BandPixels] \cup {<<b>> : b \in BandPixels}

\* options as get_rescale_options returns them
AsResolved(mc, inc, extra) ==
    WithRange(mc.opts, <<Q(0), Q(MaxOut)>>) @@ ("method" :> mc.method)
        @@ ("inc_by_one" :> inc) @@ ("units" :> "kelvin") @@ extra

\* mappings handed to rescale_product: resolved options of every modelled
\* method, some with a flag of the rule, and two that are not resolved options
FacadeOptions ==
    {AsResolved(mc, inc, EmptyDict) : mc \in MethodCases, inc \in BOOLEAN}
    \cup {AsResolved([method |-> "linear", opts |-> EmptyDict], FALSE, extra) :
            extra \in {("clip" :> FALSE), ("mask_clip" :> "both"),
                       ("separate_rgb" :> FALSE)}}
    \cup {EmptyDict, ("method" :> "raw")}

FacadeProducts ==
    {("product_name" :> n) @@ ("data_kind" :> k) @@ ("grid_name" :> "g") :
        n \in {"p1", "p2", "p3", "p4"}, k \in {"reflectance", "btemp"}}

InitProduct ==
    /\ pc = "ready"
    /\ preresolved \in BOOLEAN
    /\ IF preresolved
       THEN /\ rescale_options \in FacadeOptions
            /\ config = <<>>
            /\ gridded_product = ("product_name" :> "p1") @@ ("grid_name" :> "g")
            /\ inc_by_one = FALSE
       ELSE /\ rescale_options = EmptyDict
            /\ config = BaseConfig
            /\ gridded_product \in FacadeProducts
            /\ inc_by_one \in BOOLEAN
    /\ data_type = "uint8"
    /\ fill_value \in FillValues
    /\ clip_zero \in BOOLEAN
    /\ \E st \in Stacks :
          /\ in_data = [b \in DOMAIN st |-> <<st[b][1].v>>]
          /\ in_mask = [b \in DOMAIN st |-> <<st[b][1].ok>>]
    /\ data = in_data
    /\ good_data_mask = in_mask
    /\ exc_args = <<>>
    /\ method = "None"
    /\ clip = TRUE
    /\ mask_clip = "None"
    /\ good_data = <<>>
    /\ ret = NoRet
    /\ raised = "none"
    /\ log = <<>>
    /\ registered = {}
    /\ palette = UnitRange
    /\ calls = <<>>

\* data = self.rescale_product(gridded_product, data_type, inc_by_one,
\*                             fill_value, rescale_options, clip_zero),
\* called twice in a row on the same product with the same mapping object
RescaleProduct ==
    /\ pc \in {"ready", "called1"}
    /\ \E r \in {rescale_product(config, gridded_product, in_data, in_mask,
                                 data_type, inc_by_one, fill_value, preresolved,
                                 rescale_options, clip_zero)} :
           /\ rescale_options' = IF preresolved THEN r.opts ELSE rescale_options
           /\ method' = r.method
           /\ clip' = r.clip
           /\ mask_clip' = r.mask_clip
           /\ ret' = r.ret
           /\ raised' = r.raised
           /\ exc_args' = r.exc_args
           /\ log' = log \o r.log
    /\ pc' = IF pc = "ready" THEN "called1" ELSE "called2"
    /\ UNCHANGED <<config, gridded_product, data_type, fill_value, inc_by_one,
                   clip_zero, in_data, in_mask, data, good_data_mask, good_data,
                   preresolved, registered, palette, calls>>

NextProduct == RescaleProduct

SpecProduct == InitProduct /\ [][NextProduct]_vars

----------------------------------------------------------------------------
(* The registration hook followed by a call of the registered method *)

\* names handed to register_rescale_method: a new one and a built-in one
HookNames == {"double", "raw"}

InitRegister ==
    /\ pc = "init"
    /\ method \in HookNames
    /\ rescale_options \in {WithRange(EmptyDict, r) : r \in OutRanges}
    /\ fill_value \in FillValues
    /\ clip \in BOOLEAN
    /\ mask_clip = "None"
    /\ inc_by_one \in BOOLEAN
    /\ clip_zero = FALSE
    /\ \E b \in Buffers :
          /\ in_data = [i \in 1..NPix |-> b[i].v]
          /\ in_mask = [i \in 1..NPix |-> b[i].ok]
    /\ data = in_data
    /\ good_data_mask = in_mask
    /\ config = <<>>
    /\ gridded_product = EmptyDict
    /\ data_type = "None"
    /\ exc_args = <<>>
    /\ good_data = <<>>
    /\ ret = NoRet
    /\ raised = "none"
    /\ log = <<>>
    /\ preresolved = FALSE
    /\ registered = {}
    /\ palette = UnitRange
    /\ calls = <<>>

\* rescaler.register_rescale_method(name, func)
RegisterRescaleMethod ==
    /\ pc = "init"
    /\ registered' = registered \cup {method}
    /\ pc' = "ready"
    /\ UNCHANGED <<config, gridded_product, data_type, exc_args, method,
                   rescale_options, fill_value, clip, mask_clip, inc_by_one,
                   clip_zero, in_data, in_mask, data, good_data_mask, good_data,
                   ret, raised, log, preresolved, palette, calls>>

\* the caller goes on without registering anything
SkipRegistration ==
    /\ pc = "init"
    /\ pc' = "ready"
    /\ UNCHANGED <<config, gridded_product, data_type, exc_args, method,
                   rescale_options, fill_value, clip, mask_clip, inc_by_one,
                   clip_zero, in_data, in_mask, data, good_data_mask, good_data,
                   ret, raised, log, preresolved, registered, palette, calls>>

NextRegister == RegisterRescaleMethod \/ SkipRegistration \/ RescaleData

SpecRegister == InitRegister /\ [][NextRegister]_vars

----------------------------------------------------------------------------
(* Two callers at once, each resolving the options of its own product and  *)
(* palettizing its own buffer.  The rules name a built-in palette:         *)
(* getattr(trollimage.colormap, name) is one object for the whole process. *)
(* A caller may be preempted between any two statements; the steps below   *)
(* are the places where the palette object is written or read.             *)

\* line 589: the range get_rescale_options leaves on the palette object
RangeResolved(o, rng) ==
    IF Has(o, "colormap") /\ o["colormap"] = ColormapObject /\ Has(o, "min_in")
    THEN <<o["min_in"], o["max_in"]>>
    ELSE rng

\* line 389; with alpha (the default) tmp_cmap is the palette object itself
RangePalettize(o) == <<Get(o, "min_in", Q(0)), Get(o, "max_in", Q(1))>>

\* xrimg.palettize(tmp_cmap) for a palette of three colours: the index of
\* the last control point (first, middle, last of the range) at or below x
PaletteIndex(x, rng) ==
    IF VLt(x, VDiv(VAdd(rng[1], rng[2]), Q(2))) THEN Q(0)
    ELSE IF VLt(x, rng[2]) THEN Q(1)
    ELSE Q(2)

\* lines 390-401 with alpha: the index band, then the alpha band times
\* max_out + 1 (every pixel of the buffers drawn here is valid)
palettize(img, o, rng) ==
    [i \in 1..(2 * Len(img)) |->
        IF i <= Len(img) THEN PaletteIndex(img[i], rng)
        ELSE VAdd(o["max_out"], Q(1))]

\* two rules naming the same built-in palette with different input ranges
PaletteConfig ==
    <<Rule(("product_name" :> "p1"),
           ("method" :> "palettize") @@ ("colormap" :> "rainbow")
               @@ ("min_in" :> Q(0)) @@ ("max_in" :> Q(1))),
      Rule(("product_name" :> "p2"),
           ("method" :> "palettize") @@ ("colormap" :> "rainbow")
               @@ ("min_in" :> Q(0)) @@ ("max_in" :> Q(2 * BigIn)))>>

PaletteProduct(n) ==
    ("product_name" :> n) @@ ("data_kind" :> "index") @@ ("grid_name" :> "g")

\* buffers whose pixels are all valid numbers
ValidBuffers == {b \in Buffers : \A i \in 1..NPix : b[i].ok /\ ~IsNaN(b[i].v)}

Callers == {1, 2}

InitShared ==
    /\ pc = "shared"
    /\ config = PaletteConfig
    /\ palette = UnitRange
    /\ \E n \in {"p1", "p2"}, b1 \in ValidBuffers, b2 \in ValidBuffers :
          calls = [t \in Callers |->
                     [pc |-> "start",
                      product |-> PaletteProduct(IF t = 1 THEN "p1" ELSE n),
                      data |-> [i \in 1..NPix |-> IF t = 1 THEN b1[i].v ELSE b2[i].v],
                      opts |-> EmptyDict, ret |-> NoRet]]
    /\ data_type = "uint8"
    /\ inc_by_one = FALSE
    /\ fill_value = NaN
    /\ gridded_product = EmptyDict
    /\ rescale_options = EmptyDict
    /\ exc_args = <<>>
    /\ method = "None"
    /\ clip = TRUE
    /\ mask_clip = "None"
    /\ clip_zero = FALSE
    /\ in_data = <<>>
    /\ in_mask = <<>>
    /\ data = <<>>
    /\ good_data_mask = <<>>
    /\ good_data = <<>>
    /\ ret = NoRet
    /\ raised = "none"
    /\ log = <<>>
    /\ preresolved = FALSE
    /\ registered = {}

\* what no step of the two callers assigns
SharedFrame ==
    UNCHANGED <<pc, config, gridded_product, data_type, exc_args, method,
                rescale_options, fill_value, clip, mask_clip, inc_by_one,
                clip_zero, in_data, in_mask, data, good_data_mask, good_data,
                ret, raised, log, preresolved, registered>>

\* rescale_product, line 606: get_rescale_options loads the palette and sets
\* its range
Resolve(t) ==
    /\ calls[t].pc = "start"
    /\ \E r \in {get_rescale_options(config, calls[t].product, data_type,
                                     inc_by_one, fill_value)} :
          /\ calls' = [calls EXCEPT ![t].opts = r.opts, ![t].pc = "resolved"]
          /\ palette' = RangeResolved(r.opts, palette)
    /\ SharedFrame

\* rescale_product to palettize, line 389: tmp_cmap.set_range(min_in, max_in)
SetRange(t) ==
    /\ calls[t].pc = "resolved"
    /\ palette' = RangePalettize(calls[t].opts)
    /\ calls' = [calls EXCEPT ![t].pc = "ranged"]
    /\ SharedFrame

\* palettize, lines 390-412, and the return of rescale_product
Palettize(t) ==
    /\ calls[t].pc = "ranged"
    /\ calls' = [calls EXCEPT ![t].ret = palettize(calls[t].data, calls[t].opts,
                                                   palette),
                              ![t].pc = "done"]
    /\ UNCHANGED palette
    /\ SharedFrame

NextShared == \E t \in Callers : Resolve(t) \/ SetRange(t) \/ Palettize(t)

SpecShared == InitShared /\ [][NextShared]_vars

----------------------------------------------------------------------------
(* The scaling functions called on their own: one function applied to an   *)
(* array with the keyword arguments a rule gives it, and unlinear_scale    *)
(* applied to what linear_scale returned.                                  *)

\* a keyword argument that is either absent or one of the values of S
Optional(k, S) == {EmptyDict} \cup {(k :> v) : v \in S}

Arrays == [1..NPix -> InVals] \cup {<<>>}

Slopes == {Q(-2), Q(0), Rat(1, 2), Q(1), Q(2)}
Intercepts == {Q(-1), Q(0), Rat(1, 2)}

LinearBasicCases ==
    {[method |-> "linear_basic", opts |-> ("m" :> m) @@ ("b" :> b)] :
        m \in Slopes, b \in Intercepts}

LinearCases ==
    {[method |-> "linear", opts |-> WithRange(a @@ b @@ c @@ d, r)] :
        r \in OutRanges,
        a \in Optional("min_in", {Q(-1), Q(0), Q(BigIn)}),
        b \in Optional("max_in", {Q(-1), Q(0)}),
        c \in Optional("flip", {TRUE}),
        d \in Optional("offset", {Q(1)})}

SqrtCases ==
    {[method |-> "sqrt", opts |-> WithRange(a @@ b @@ c @@ d @@ e, <<lo, Q(MaxOut)>>)] :
        lo \in {Q(0), Q(1)},
        a \in Optional("min_in", {Q(0), Q(1)}),
        b \in Optional("max_in", {Q(0), Q(4)}),
        c \in Optional("inner_mult", {Q(4)}),
        d \in Optional("outer_mult", {Rat(1, 2)}),
        e \in Optional("units", {"%"})}

\* NDVI pixels: inside, at the ends of and outside the default input range
NdviVals == {NaN, Q(-2), Q(-1), Rat(-1, 2), Q(0), Rat(1, 2), Q(1), Q(2)}

NdviCases ==
    {[method |-> "ndvi", opts |-> WithRange(a @@ b @@ c @@ d, r)] :
        r \in {<<Q(0), Q(255)>>, <<Q(0), Q(MaxOut)>>, <<Q(100), Q(255)>>},
        a \in Optional("min_in", {Q(-2)}),
        b \in Optional("max_in", {Q(2)}),
        c \in Optional("threshold", {Q(-1), Rat(1, 2), Q(1)}),
        d \in Optional("threshold_out", {Q(1)})}

\* brightness temperatures around the input range 0..4 with threshold 2
BtVals == {NaN} \cup {Q(i) : i \in -1..5}

BtCases ==
    {[method |-> "brightness_temperature",
      opts |-> WithRange(("min_in" :> Q(0)) @@ ("threshold" :> Q(2))
                             @@ ("max_in" :> Q(4)) @@ a, r)] :
        r \in {<<Q(0), Q(255)>>, <<Q(0), Q(MaxOut)>>, <<Q(200), Q(255)>>},
        a \in Optional("threshold_out", {Q(1), Q(255)})}
    \cup
    {[method |-> "brightness_temperature",
      opts |-> WithRange(("min_in" :> Q(273)) @@ ("threshold" :> Q(275))
                             @@ ("max_in" :> Q(277)) @@ ("units" :> "celsius"),
                         <<Q(0), Q(255)>>)]}

\* temperature differences inside, at the ends of and outside -10..10
TempDiffVals == {NaN, Q(-11), Q(-10), Q(-5), Q(0), Q(10), Q(11)}

TempDiffCases ==
    {[method |-> "temperature_difference",
      opts |-> WithRange(("min_in" :> Q(-10)) @@ ("max_in" :> Q(10)), r)] :
        r \in {<<Q(0), Q(255)>>, <<Q(0), Q(250)>>, <<Q(0), Q(MaxOut)>>, <<Q(10), Q(20)>>}}

\* reflectances for the input ranges 0..255 and 0..510: the ends, a control
\* point, a value between two control points, values outside
LookupVals == {NaN, Q(-1), Q(0), Q(25), Q(40), Q(255), Q(600)}

LookupCases ==
    {[method |-> "lookup",
      opts |-> WithRange(("min_in" :> lim[1]) @@ ("max_in" :> lim[2])
                             @@ a @@ b @@ c, r)] :
        lim \in {<<Q(0), Q(255)>>, <<Q(0), Q(510)>>, <<Q(0), Q(0)>>},
        r \in {<<Q(0), Q(255)>>, <<Q(0), Q(MaxOut)>>, <<Q(MaxOut), Q(0)>>},
        a \in Optional("table_name", {"crefl_old", "crefl_new"}),
        b \in Optional("flip", {TRUE}),
        c \in Optional("offset", {Q(1)})}

\* what a build makes of NaN cast to uint32: an index of the table, or a
\* number past its end
NanCasts == {0, 255, 256}

\* palette indexes: the three remapped values, results of a remapping that
\* another rule names, and values no rule names
WaterTempVals == {NaN, Q(31), Q(150), Q(199), Q(200), Q(250), Q(299)}

WaterTempCases ==
    {[method |-> "water_temp_palettize", opts |-> WithRange(a, <<Q(0), Q(255)>>)] :
        a \in Optional("colormap", {ColormapObject, OtherObject, NoColormap})}

FunctionCases ==
    LinearBasicCases \cup LinearCases \cup SqrtCases \cup NdviCases \cup BtCases
        \cup TempDiffCases \cup LookupCases \cup WaterTempCases

\* the pixel values tried with each method
ValsOf(name) ==
    CASE name = "ndvi" -> NdviVals
      [] name = "brightness_temperature" -> BtVals
      [] name = "temperature_difference" -> TempDiffVals
      [] name = "lookup" -> LookupVals
      [] name = "water_temp_palettize" -> WaterTempVals
      [] OTHER -> InVals

ArraysOf(name) == [1..NPix -> ValsOf(name)] \cup {<<>>}

InitFunctions ==
    /\ pc = "ready"
    /\ \E fc \in FunctionCases :
          /\ method = fc.method
          /\ rescale_options = fc.opts
          /\ in_data \in ArraysOf(fc.method)
    /\ data = in_data
    /\ in_mask = [i \in DOMAIN in_data |-> TRUE]
    /\ good_data_mask = in_mask
    /\ good_data = <<>>
    /\ config = <<>>
    /\ gridded_product = EmptyDict
    /\ data_type = "float32"
    /\ exc_args = <<>>
    /\ fill_value = NaN
    /\ clip = FALSE
    /\ mask_clip = "None"
    /\ inc_by_one = FALSE
    /\ clip_zero = FALSE
    /\ ret = NoRet
    /\ raised = "none"
    /\ log = <<>>
    /\ preresolved = FALSE
    /\ registered = {}
    /\ palette = UnitRange
    /\ calls = <<>>

\* what neither step assigns
FunctionFrame ==
    UNCHANGED <<config, gridded_product, data_type, exc_args, method,
                rescale_options, fill_value, clip, mask_clip, inc_by_one,
                clip_zero, in_data, in_mask, good_data_mask, good_data,
                preresolved, registered, palette, calls>>

\* rescale_func(img, **rescale_options); the function works in place
ApplyFunction ==
    /\ pc = "ready"
    /\ method # "lookup"
    /\ \E r \in {CallMethod(method, in_data, rescale_options)} :
          /\ raised' = r.exc
          /\ ret' = IF r.exc = "none" THEN r.img ELSE NoRet
          /\ data' = IF r.exc = "none" THEN r.img ELSE data
          /\ log' = r.log
    /\ pc' = "done"
    /\ FunctionFrame

\* unlinear_scale(img, m, b) on the array linear_scale returned
Unscale ==
    /\ pc = "done"
    /\ method = "linear_basic"
    /\ raised = "none"
    /\ \E r \in {CallMethod("unlinear", ret, rescale_options)} :
          /\ raised' = r.exc
          /\ ret' = r.img
          /\ data' = r.img
          /\ log' = log \o r.log
    /\ pc' = "inverted"
    /\ FunctionFrame

\* lookup_scale(img, **rescale_options); a missing required argument is a
\* TypeError
CallLookup(img, o, nan_cast) ==
    IF ~({"min_out", "max_out", "min_in", "max_in"} \subseteq DOMAIN o)
    THEN Fail("TypeError")
    ELSE lookup_scale(img, o["min_out"], o["max_out"], o["min_in"], o["max_in"],
                      Get(o, "table_name", "crefl"), Get(o, "flip", FALSE),
                      Get(o, "offset", Q(0)), nan_cast)

\* rescale_func(img, **rescale_options) for 'lookup'
ApplyLookup ==
    /\ pc = "ready"
    /\ method = "lookup"
    /\ \E nan_cast \in NanCasts :
       \E r \in {CallLookup(in_data, rescale_options, nan_cast)} :
          /\ raised' = r.exc
          /\ ret' = IF r.exc = "none" THEN r.img ELSE NoRet
          /\ data' = IF r.exc = "none" THEN r.img ELSE data
          /\ log' = r.log
    /\ pc' = "done"
    /\ FunctionFrame

NextFunctions == ApplyFunction \/ Unscale \/ ApplyLookup

SpecFunctions == InitFunctions /\ [][NextFunctions]_vars

----------------------------------------------------------------------------
(* Vocabulary of the properties *)

\* the call has returned normally
Returned == pc = "done" /\ raised = "none"
\* the palette-based methods of the catalog
PaletteMethod == method \in {"palettize", "colorize", "water_temp_palettize"}
\* the call was _rescale_data with a method that is not palette-based
Scaled == Returned /\ ~PaletteMethod
\* ... and the options name the output range
Ranged == Scaled /\ {"min_out", "max_out"} \subseteq DOMAIN rescale_options
\* what the scaling function produced for pixel i (valid on input)
ScaledAt(i) == good_data[Rank(in_mask, i)]
OptMin == rescale_options["min_out"]
OptMax == rescale_options["max_out"]
Inc == IF inc_by_one THEN Q(1) ELSE Q(0)
Below(i) == VLt(ScaledAt(i), OptMin)
Above(i) == VGt(ScaledAt(i), OptMax)
Inside(i) == VGe(ScaledAt(i), OptMin) /\ VLe(ScaledAt(i), OptMax)
WellFormedRange == VLe(OptMin, OptMax)
\* the zero-floor special case of the clip step
ZeroFloor == clip_zero /\ VEq(OptMin, Q(0)) /\ ~inc_by_one

----------------------------------------------------------------------------
\* C1: after _rescale_data returns normally for a non-palette method, every
\* pixel that was invalid on input and every pixel whose scaled result is
\* NaN is invalid in the updated mask and holds exactly fill_value (not
\* clipped, not incremented), whatever clip, mask_clip and inc_by_one are.
C1_InvalidHoldFill ==
    Scaled =>
        \A i \in 1..NPix :
            (~in_mask[i] \/ IsNaN(ScaledAt(i)))
                => (ret[i] = fill_value /\ data[i] = fill_value /\ ~good_data_mask[i])

C1_Witness ==
    /\ Scaled /\ inc_by_one /\ clip /\ mask_clip = "None" /\ ~IsNaN(fill_value)
    /\ \E i, j \in 1..NPix :
          /\ ~in_mask[i] /\ in_data[i] # fill_value
          /\ in_mask[j] /\ IsNaN(ScaledAt(j)) /\ ret[j] = fill_value

\* C2 (as claimed): a pixel that is still valid holds the fill value only if
\* its scaled value was outside [min_out, max_out] and was clipped, for
\* every fill_value, min_out, max_out and inc_by_one.
C2_Original ==
    Ranged =>
        \A i \in 1..NPix :
            (good_data_mask[i] /\ ret[i] = fill_value)
                => (clip /\ (Below(i) \/ Above(i)))

\* the fill value is NaN or lies outside the range valid output can take
FillOutsideRange ==
    \/ IsNaN(fill_value)
    \/ VLt(fill_value, VAdd(OptMin, Inc))
    \/ VGt(fill_value, VAdd(OptMax, Inc))

\* C2 (amended): provided the fill value is NaN or lies outside
\* [min_out + inc, max_out + inc], a still-valid pixel holds the fill value
\* only if its scaled value was outside [min_out, max_out]; a valid pixel
\* whose scaled value is inside the output range never equals the fill value.
C2_ValidNotFill ==
    (Ranged /\ FillOutsideRange) =>
        \A i \in 1..NPix :
            /\ (good_data_mask[i] /\ ret[i] = fill_value) => (Below(i) \/ Above(i))
            /\ (good_data_mask[i] /\ Inside(i)) => ret[i] # fill_value

C2_Witness ==
    /\ Ranged /\ FillOutsideRange /\ ~IsNaN(fill_value) /\ inc_by_one
    /\ \E i, j \in 1..NPix :
          /\ good_data_mask[i] /\ Inside(i) /\ ret[i] # fill_value
          /\ good_data_mask[j] /\ ret[j] = fill_value /\ Below(j)

\* C3 (as claimed): with inc_by_one every valid output pixel is at least
\* min_out + 1 and none equals 0, for every output range and clip setting.
C3_Original ==
    (Ranged /\ inc_by_one /\ WellFormedRange) =>
        \A i \in 1..NPix :
            good_data_mask[i] => (VGe(ret[i], VAdd(OptMin, Q(1))) /\ ret[i] # Q(0))

\* C3 (amended): with inc_by_one and clip set and min_out <= max_out, every
\* valid output pixel lies in [min_out + 1, max_out + 1]; no valid output
\* pixel equals 0 when moreover min_out >= 0.
C3_IncReservesMin ==
    (Ranged /\ inc_by_one /\ clip /\ WellFormedRange) =>
        \A i \in 1..NPix :
            good_data_mask[i] =>
                /\ VGe(ret[i], VAdd(OptMin, Q(1)))
                /\ VLe(ret[i], VAdd(OptMax, Q(1)))
                /\ VGe(OptMin, Q(0)) => ret[i] # Q(0)

C3_Witness ==
    /\ Ranged /\ inc_by_one /\ clip /\ WellFormedRange /\ VEq(OptMin, Q(0))
    /\ \E i, j \in 1..NPix :
          /\ good_data_mask[i] /\ Below(i) /\ ret[i] = Q(1)
          /\ good_data_mask[j] /\ VEq(ScaledAt(j), Q(0)) /\ ret[j] = Q(1)

\* C4 (as claimed): when clip is set, min_out is 0 and inc_by_one is not
\* requested, the valid results are clipped into [1, max_out]: no valid
\* output pixel equals 0.
C4_Original ==
    (Ranged /\ clip /\ VEq(OptMin, Q(0)) /\ VGe(OptMax, Q(1)) /\ ~inc_by_one) =>
        \A i \in 1..NPix :
            good_data_mask[i] => (VGe(ret[i], Q(1)) /\ VLe(ret[i], OptMax))

\* C4 (amended): when clip and clip_zero are set, min_out is 0, max_out is
\* at least 1 and inc_by_one is not requested, the valid results are clipped
\* into [1, max_out]: no valid output pixel equals 0.
C4_ClipZero ==
    (Ranged /\ clip /\ clip_zero /\ VEq(OptMin, Q(0)) /\ VGe(OptMax, Q(1))
        /\ ~inc_by_one) =>
        \A i \in 1..NPix :
            good_data_mask[i] => (VGe(ret[i], Q(1)) /\ VLe(ret[i], OptMax))

C4_Witness ==
    /\ Ranged /\ clip /\ clip_zero /\ VEq(OptMin, Q(0)) /\ VGe(OptMax, Q(1))
    /\ ~inc_by_one /\ fill_value = Q(0)
    /\ \E i, j \in 1..NPix :
          /\ good_data_mask[i] /\ VEq(ScaledAt(i), Q(0)) /\ ret[i] = Q(1)
          /\ ~good_data_mask[j] /\ ret[j] = Q(0)

\* the value the clip step is claimed to give: below min_out -> min_out,
\* above max_out -> max_out, inside -> unchanged
Clamped(x) == IF VLt(x, OptMin) THEN OptMin ELSE IF VGt(x, OptMax) THEN OptMax ELSE x
\* pixel i was valid on input and the scaling function gave it a number
HasResult(i) == in_mask[i] /\ ~IsNaN(ScaledAt(i))
Masked(i) == ~good_data_mask[i] /\ ret[i] = fill_value

\* C5 (as claimed): with clip set and mask_clip unset (min_out <= max_out),
\* every valid result is clamped, not masked: below min_out it becomes
\* min_out, above max_out it becomes max_out, inside it is unchanged (before
\* the increment of inc_by_one), and the pixel stays valid.
C5_Original ==
    (Ranged /\ clip /\ mask_clip = "None" /\ WellFormedRange) =>
        \A i \in 1..NPix :
            HasResult(i) =>
                (good_data_mask[i] /\ ret[i] = VAdd(Clamped(ScaledAt(i)), Inc))

\* C5 (amended): the same, unless clip_zero is set with min_out = 0 and no
\* inc_by_one (then the floor of the clip is 1, not min_out).
C5_ClampNotMask ==
    (Ranged /\ clip /\ mask_clip = "None" /\ WellFormedRange /\ ~ZeroFloor) =>
        \A i \in 1..NPix :
            HasResult(i) =>
                (good_data_mask[i] /\ ret[i] = VAdd(Clamped(ScaledAt(i)), Inc))

C5_Witness ==
    /\ Ranged /\ clip /\ mask_clip = "None" /\ WellFormedRange /\ ~ZeroFloor
    /\ clip_zero /\ VLt(OptMin, OptMax)
    /\ \E i, j \in 1..NPix :
          /\ HasResult(i) /\ Below(i) /\ good_data_mask[i] /\ ret[i] = VAdd(OptMin, Inc)
          /\ HasResult(j) /\ Above(j) /\ good_data_mask[j] /\ ret[j] = VAdd(OptMax, Inc)

\* C6: with clip set and a mask_clip mode, out-of-range results are masked
\* instead of clamped: with "both" every valid pixel whose scaled value is
\* outside [min_out, max_out] ends invalid and holds the fill value; with
\* "min" only the values below min_out do and the values above max_out are
\* clamped to max_out; with "max" only the values above max_out do and the
\* values below min_out are clamped into the output range (to min_out, or
\* to the floor 1 of the zero-floor case).
C6_MaskClip ==
    (Ranged /\ clip /\ mask_clip \in {"min", "max", "both"}) =>
        \A i \in 1..NPix :
            HasResult(i) =>
                /\ (mask_clip \in {"min", "both"} /\ Below(i)) => Masked(i)
                /\ (mask_clip \in {"max", "both"} /\ Above(i)) => Masked(i)
                /\ (mask_clip = "both" /\ Inside(i)) => good_data_mask[i]
                /\ (mask_clip = "min" /\ ~Below(i)) => good_data_mask[i]
                /\ (mask_clip = "max" /\ ~Above(i)) => good_data_mask[i]
                /\ (mask_clip = "min" /\ Above(i) /\ WellFormedRange)
                      => ret[i] = VAdd(OptMax, Inc)
                /\ (mask_clip = "max" /\ Below(i) /\ WellFormedRange)
                      => /\ VGe(ret[i], VAdd(OptMin, Inc))
                         /\ VLe(ret[i], VAdd(OptMax, Inc))
                         /\ ~ZeroFloor => ret[i] = VAdd(OptMin, Inc)

C6_Witness ==
    /\ Ranged /\ clip /\ mask_clip = "min" /\ WellFormedRange
    /\ ~IsNaN(fill_value) /\ inc_by_one
    /\ \E i, j \in 1..NPix :
          /\ HasResult(i) /\ Below(i) /\ Masked(i)
          /\ HasResult(j) /\ Above(j) /\ good_data_mask[j]
          /\ ret[j] = VAdd(OptMax, Q(1))

\* C7: for a palette-based method _rescale_data returns what the method
\* returns for the full buffer, as is: the mask is not updated, no pixel is
\* clipped, filled or incremented, whatever clip, mask_clip and inc_by_one are.
C7_PaletteAsIs ==
    (Returned /\ PaletteMethod) =>
        /\ ret = water_temp_palettize(in_data, rescale_options["colormap"]).img
        /\ data = ret
        /\ good_data_mask = in_mask

C7_Witness ==
    /\ Returned /\ PaletteMethod /\ clip /\ mask_clip = "both" /\ inc_by_one
    /\ \E i, j \in 1..NPix :
          /\ ~in_mask[i] /\ in_data[i] # fill_value /\ ret[i] = in_data[i]
          /\ in_mask[j] /\ in_data[j] = Q(BigIn) /\ ret[j] = Q(31)
          /\ VGt(ret[j], OptMax)

\* C8: whenever a scaling call fails inside _rescale_data, because of an
\* invalid parameter value (ValueError, RuntimeError), an unknown method name
\* (KeyError) or an arithmetic error (ZeroDivisionError), an error is logged
\* before the exception reaches the caller.
C8_FailureLogged ==
    (pc = "done"
        /\ raised \in {"ValueError", "RuntimeError", "KeyError", "ZeroDivisionError"})
        => (log # <<>> /\ log[Len(log)] = "ERROR")

----------------------------------------------------------------------------
(* Properties of rule resolution (checked under SpecOptions) *)

\* the identification attributes get_rescale_options looks the product up by
LookupKey ==
    [k \in {id_fields[i] : i \in 1..Len(id_fields)} |->
        IF k = "data_type" THEN dtype_to_str(data_type)
        ELSE IF k = "inc_by_one" THEN inc_by_one
        ELSE Get(gridded_product, k, "None")]
\* what the rule set yields for the product
Matched == get_config_options(config, LookupKey)
Resolved == pc = "done" /\ raised = "none" /\ config # <<>>
TypeRange == dtype2range(dtype_to_str(data_type))

\* C9: get_rescale_options fails with an error that names the product
\* whenever the rule set yields no method for the product's identification
\* attributes, and then returns no options.
C9_NoMethodRaises ==
    (pc = "done" /\ ~Has(Matched, "method")) =>
        /\ raised = "ValueError"
        /\ exc_args = <<gridded_product["product_name"]>>
        /\ rescale_options = EmptyDict

C9_Witness ==
    /\ pc = "done" /\ config # <<>> /\ ~Has(Matched, "method")
    /\ gridded_product["product_name"] = "p3"
    /\ raised = "ValueError" /\ exc_args = <<"p3">>

\* C10: in the options returned by get_rescale_options, when the matched
\* rule does not set them, min_out is the output type's minimum and max_out
\* the type's maximum, reduced by one exactly when inc_by_one is set; a
\* min_out or max_out given by the rule is returned unchanged.
C10_RangeDefaults ==
    Resolved =>
        /\ rescale_options["min_out"] =
              IF Has(Matched, "min_out") THEN Matched["min_out"] ELSE TypeRange[1]
        /\ rescale_options["max_out"] =
              IF Has(Matched, "max_out") THEN Matched["max_out"]
              ELSE IF inc_by_one THEN VSub(TypeRange[2], Q(1)) ELSE TypeRange[2]

C10_Witness ==
    /\ Resolved /\ inc_by_one /\ data_type = "uint8"
    /\ ~Has(Matched, "min_out") /\ ~Has(Matched, "max_out")
    /\ rescale_options["min_out"] = Q(0) /\ rescale_options["max_out"] = Q(254)

C10_WitnessGiven ==
    /\ Resolved /\ inc_by_one /\ Has(Matched, "max_out")
    /\ rescale_options["max_out"] = Q(200) /\ rescale_options["min_out"] = Q(0)

\* C11: every Resolved Options returned by get_rescale_options satisfies
\* min_out <= max_out, for every output data type, every inc_by_one value
\* and every matched rule.
C11_MinLeMax ==
    Resolved => VLe(rescale_options["min_out"], rescale_options["max_out"])

\* the rules of the loaded set that match the product, their specificity
\* and the one rule resolution has to pick
RuleApplies(i) ==
    \A k \in DOMAIN config[i].key : config[i].key[k] = LookupKey[k]
KeyCount(i) == Cardinality(DOMAIN config[i].key)
IsPick(i) ==
    /\ RuleApplies(i)
    /\ \A j \in 1..Len(config) :
          RuleApplies(j) =>
              \/ KeyCount(j) < KeyCount(i)
              \/ (KeyCount(j) = KeyCount(i) /\ j <= i)
Usable(i) ==
    /\ Has(config[i].options, "method")
    /\ Get(config[i].options, "colormap", NoColormap) # OtherObject

C12_WitnessSpecific ==
    /\ pc = "done" /\ raised = "none" /\ Len(config) >= 2
    /\ RuleApplies(1) /\ IsPick(2) /\ KeyCount(1) < KeyCount(2)
    /\ rescale_options["method"] = "water_temp_palettize"

----------------------------------------------------------------------------
(* Properties of the facade (checked under SpecProduct) *)

\* the Resolved Options a call in state "ready" works with
ResolvedNow ==
    IF preresolved THEN rescale_options
    ELSE get_rescale_options(config, gridded_product, data_type, inc_by_one,
                             fill_value).opts
\* _rescale_data on band i alone, with these options and their flags
BandAlone(i) ==
    _rescale_data(ResolvedNow["method"], in_data[i], in_mask[i], ResolvedNow,
                  fill_value, Get(ResolvedNow, "clip", TRUE),
                  Get(ResolvedNow, "mask_clip", "None"),
                  ResolvedNow["inc_by_one"], clip_zero)
FansOut ==
    /\ pc = "ready" /\ Len(in_data) = 3
    /\ {"method", "inc_by_one"} \subseteq DOMAIN ResolvedNow
    /\ Get(ResolvedNow, "separate_rgb", TRUE) = TRUE

\* C13: rescale_product on a 3-band buffer (separate_rgb not disabled)
\* returns, for each band, exactly the buffer that _rescale_data returns for
\* that band alone with the same method, resolved options, fill value and
\* flags, and it returns whenever the three calls alone return.
C13_BandsAlone ==
    [][FansOut =>
          /\ (raised' = "none") <=> (\A i \in 1..3 : BandAlone(i).raised = "none")
          /\ raised' = "none" => \A i \in 1..3 : ret'[i] = BandAlone(i).ret]_vars

\* an RGB stack went through a method that ranges every band by itself and
\* the three bands came out different
C13_Witness ==
    /\ pc = "called1" /\ raised = "none" /\ Len(in_data) = 3 /\ Len(ret) = 3
    /\ method = "linear_basic"
    /\ ret[1] # ret[2] /\ ret[2] # ret[3] /\ ret[1] # ret[3]
    /\ \A i \in 1..3 : in_mask[i][1]

\* C14: rescale_product leaves a caller-supplied rescale_options mapping
\* unchanged, so a second call with the same mapping succeeds as the first
\* did and returns the same buffer.
C14_OptionsReusable ==
    [][preresolved =>
          /\ (pc = "ready" /\ {"method", "inc_by_one", "min_out", "max_out"}
                                  \subseteq DOMAIN rescale_options) =>
                 rescale_options' = rescale_options
          /\ (pc = "called1" /\ raised = "none") =>
                 (raised' = "none" /\ ret' = ret)]_vars

\* the second half of C14 alone: a call that succeeded succeeds again
C14_SecondCall ==
    [][(preresolved /\ pc = "called1" /\ raised = "none") =>
          (raised' = "none" /\ ret' = ret)]_vars

----------------------------------------------------------------------------
(* Properties of the registration hook (checked under SpecRegister) *)

\* the function registered under the names of HookNames in this model: it
\* doubles every value
Doubled(x) == VMul(x, Q(2))

\* C15: after register_rescale_method(name, func) the method is usable like a
\* catalog method: _rescale_data with that name calls func on the valid
\* subset of the buffer and writes its result back.
C15_RegisteredUsable ==
    (pc = "done" /\ method \in registered) =>
        /\ raised = "none"
        /\ ~clip => \A i \in 1..Len(in_data) :
                       (in_mask[i] /\ ~IsNaN(in_data[i])) =>
                           ret[i] = VAdd(Doubled(in_data[i]),
                                         IF inc_by_one THEN Q(1) ELSE Q(0))

----------------------------------------------------------------------------
(* Properties of callers running at once (checked under SpecShared) *)

\* what caller t gets when nothing else runs
Alone(t) ==
    palettize(calls[t].data, calls[t].opts, RangePalettize(calls[t].opts))

\* C16: resolve-and-rescale calls on independent products share no mutable
\* state: in every interleaving of two such calls, also when both rules name
\* the same built-in palette with different min_in/max_in, each call returns
\* the buffer it returns when run alone.
C16_CallsIndependent ==
    \A t \in DOMAIN calls : calls[t].pc = "done" => calls[t].ret = Alone(t)

\* C16, the frame part: between the step of a caller that sets the range of
\* the palette and its step that reads it, no other caller changes the palette
C16_PaletteUntouched ==
    [][\A t \in DOMAIN calls :
          (calls[t].pc = "ranged" /\ calls'[t].pc = "ranged") =>
              palette' = palette]_vars

----------------------------------------------------------------------------
(* linear_scale and unlinear_scale *)

\* the slope and intercept of the call
GivenM == rescale_options["m"]
GivenB == rescale_options["b"]

\* C17: for every m # 0, every b and every input x,
\* unlinear_scale(linear_scale(x, m, b), m, b) is x again (a NaN pixel stays
\* NaN): 'unlinear' undoes 'linear_basic'.
C17_RoundTrip ==
    (pc = "inverted" /\ VNe(GivenM, Q(0))) => (raised = "none" /\ ret = in_data)

\* a round trip through a slope other than 1 and an intercept other than 0,
\* over an array with a pixel that is neither NaN nor 0
C17_Witness ==
    /\ pc = "inverted"
    /\ VNe(GivenM, Q(0)) /\ VNe(GivenM, Q(1)) /\ VNe(GivenB, Q(0))
    /\ \E i \in DOMAIN in_data : ~IsNaN(in_data[i]) /\ VNe(in_data[i], Q(0))
    /\ ret = in_data

----------------------------------------------------------------------------
(* linear_flexible_scale on its own *)

\* 'linear' has returned
LinearDone == pc = "done" /\ method = "linear" /\ raised = "none"

GivenFlip == Get(rescale_options, "flip", FALSE)
GivenOffset == Get(rescale_options, "offset", Q(0))
\* the input range of the call before the nudge: given, or the smallest and
\* the largest pixel that is not NaN
MinInEff == IF Has(rescale_options, "min_in") THEN rescale_options["min_in"] ELSE NanMin(in_data)
MaxInEff == IF Has(rescale_options, "max_in") THEN rescale_options["max_in"] ELSE NanMax(in_data)
\* the low end of the output range of the call
LowOut == VAdd(OptMin, GivenOffset)

\* outputs i and j are in the order the polarity asks for
Ordered(i, j) == IF GivenFlip THEN VGe(ret[i], ret[j]) ELSE VLe(ret[i], ret[j])
Monotonic == \A i, j \in DOMAIN in_data : VLe(in_data[i], in_data[j]) => Ordered(i, j)

\* C18 (as claimed): for every min_in, max_in and every min_out <= max_out
\* the outputs keep the order of the inputs (reverse it with flip), min_in
\* maps to min_out and max_in to max_out (with flip: to max_out and min_out).
C18_Original ==
    (LinearDone /\ VLe(OptMin, OptMax)) =>
        /\ Monotonic
        /\ \A i \in DOMAIN in_data :
              /\ VEq(in_data[i], MinInEff) =>
                    VEq(ret[i], IF GivenFlip THEN OptMax ELSE OptMin)
              /\ VEq(in_data[i], MaxInEff) =>
                    VEq(ret[i], IF GivenFlip THEN OptMin ELSE OptMax)

\* C18 (amended): when min_in <= max_in (given or computed) and
\* min_out + offset <= max_out, the outputs keep the order of the inputs
\* (reverse it with flip); min_in maps to min_out + offset (with flip: to
\* max_out) and, when min_in < max_in, max_in maps to max_out (with flip: to
\* min_out + offset).
C18_Monotonic ==
    (LinearDone /\ VLe(MinInEff, MaxInEff) /\ VLe(LowOut, OptMax)) =>
        /\ Monotonic
        /\ \A i \in DOMAIN in_data :
              /\ VEq(in_data[i], MinInEff) =>
                    VEq(ret[i], IF GivenFlip THEN OptMax ELSE LowOut)
              /\ (VLt(MinInEff, MaxInEff) /\ VEq(in_data[i], MaxInEff)) =>
                    VEq(ret[i], IF GivenFlip THEN LowOut ELSE OptMax)

\* a flipped call with an offset whose two pixels are the ends of the input
\* range and come out in reverse order
C18_Witness ==
    /\ LinearDone /\ GivenFlip /\ VNe(GivenOffset, Q(0))
    /\ VLt(MinInEff, MaxInEff) /\ VLt(LowOut, OptMax)
    /\ \E i, j \in DOMAIN in_data :
          /\ VEq(in_data[i], MinInEff) /\ VEq(in_data[j], MaxInEff)
          /\ VGt(ret[i], ret[j])

\* an unflipped call whose pixels come out in strictly increasing order
C18_WitnessPlain ==
    /\ LinearDone /\ ~GivenFlip
    /\ VLe(MinInEff, MaxInEff) /\ VLe(LowOut, OptMax)
    /\ \E i, j \in DOMAIN in_data :
          VLt(in_data[i], in_data[j]) /\ VLt(ret[i], ret[j])

----------------------------------------------------------------------------
(* the degenerate input range of linear_flexible_scale *)

\* 'linear' was called with equal input bounds, given or computed
Degenerate == pc = "done" /\ method = "linear" /\ VEq(MinInEff, MaxInEff)

\* the line through (min_in, low end) and (min_in + 1, max_out), the ends of
\* the output range exchanged by flip
NudgedLine(x) ==
    IF GivenFlip THEN VAdd(VMul(VSub(LowOut, OptMax), VSub(x, MinInEff)), OptMax)
    ELSE VAdd(VMul(VSub(OptMax, LowOut), VSub(x, MinInEff)), LowOut)

C19_WitnessGiven ==
    /\ Degenerate /\ Has(rescale_options, "min_in") /\ Has(rescale_options, "max_in")
    /\ \E i \in DOMAIN in_data : ~IsNaN(in_data[i]) /\ VNe(in_data[i], MinInEff)
    /\ raised = "none" /\ log = <<"WARNING">>

----------------------------------------------------------------------------
(* sqrt_scale on its own *)

\* 'sqrt' was called
SqrtDone == pc = "done" /\ method = "sqrt"
\* the min_in of the call, 0.0 when the rule gives none
GivenMinIn == Get(rescale_options, "min_in", Q(0))

\* C20: sqrt_scale raises, and returns no result, whenever min_out is not 0
\* or min_in is not 0; it computes a result only when both are 0.
C20_NonZeroRaises ==
    SqrtDone =>
        /\ (VNe(OptMin, Q(0)) \/ VNe(GivenMinIn, Q(0))) =>
              (raised = "RuntimeError" /\ ret = NoRet)
        /\ raised = "none" => (VEq(OptMin, Q(0)) /\ VEq(GivenMinIn, Q(0)))

\* what lines 154-155 do: the RuntimeError is raised exactly when min_out and
\* min_in are both not 0
C20_RaisesWhenBoth ==
    SqrtDone =>
        (raised = "RuntimeError" <=> (VNe(OptMin, Q(0)) /\ VNe(GivenMinIn, Q(0))))

\* a call with min_out = 1 and the default min_in that returns an array
C20_NonZeroFloorAccepted ==
    /\ SqrtDone /\ VNe(OptMin, Q(0)) /\ ~Has(rescale_options, "min_in")
    /\ raised = "none" /\ ret # NoRet

----------------------------------------------------------------------------
(* ndvi_scale on its own *)

\* 'ndvi' has returned
NdviDone == pc = "done" /\ method = "ndvi" /\ raised = "none"

NdviMinIn == Get(rescale_options, "min_in", Q(-1))
NdviMaxIn == Get(rescale_options, "max_in", Q(1))
NdviThreshold == Get(rescale_options, "threshold", Q(0))
NdviThresholdOut ==
    IF Has(rescale_options, "threshold_out") THEN rescale_options["threshold_out"]
    ELSE VMul(Rat(49, 255), OptMax)

\* the value at x of the line through (x0, y0) and (x1, y1), x0 # x1
TwoPoint(x, x0, y0, x1, y1) ==
    VAdd(y0, VDiv(VMul(VSub(y1, y0), VSub(x, x0)), VSub(x1, x0)))

\* pixel i clipped to [min_in, max_in]
NdviClipped(i) ==
    IF VLt(in_data[i], NdviMinIn) THEN NdviMinIn
    ELSE IF VGt(in_data[i], NdviMaxIn) THEN NdviMaxIn ELSE in_data[i]

\* the call of the spec's example
NdviExample ==
    /\ NdviDone
    /\ DOMAIN rescale_options = {"min_out", "max_out"}
    /\ OptMin = Q(0) /\ OptMax = Q(255)

\* C21: ndvi_scale clips each input to [min_in, max_in]; a clipped input
\* below threshold is on the line from (min_in, min_out) to (threshold,
\* threshold_out), one at or above threshold on the line from (threshold,
\* threshold_out) to (max_in, max_out); with threshold=0, min_in=-1,
\* max_in=1, min_out=0, max_out=255 input -1 gives 0, input 1 gives 255,
\* input 0 gives threshold_out = 49 and every output of a number is in
\* [min_out, max_out].
C21_NdviTwoLines ==
    /\ NdviDone =>
          \A i \in DOMAIN in_data :
              /\ VLt(NdviClipped(i), NdviThreshold) =>
                    ret[i] = TwoPoint(NdviClipped(i), NdviMinIn, OptMin,
                                      NdviThreshold, NdviThresholdOut)
              /\ (VGe(NdviClipped(i), NdviThreshold) /\ VLt(NdviThreshold, NdviMaxIn)) =>
                    ret[i] = TwoPoint(NdviClipped(i), NdviThreshold, NdviThresholdOut,
                                      NdviMaxIn, OptMax)
              /\ VEq(in_data[i], NdviThreshold) => ret[i] = NdviThresholdOut
    /\ NdviExample =>
          \A i \in DOMAIN in_data :
              /\ in_data[i] = Q(-1) => ret[i] = Q(0)
              /\ in_data[i] = Q(1) => ret[i] = Q(255)
              /\ in_data[i] = Q(0) => ret[i] = Q(49)
              /\ ~IsNaN(in_data[i]) => (VGe(ret[i], OptMin) /\ VLe(ret[i], OptMax))

\* the example call on an array holding an end of the input range and the
\* threshold
C21_Witness ==
    /\ NdviExample
    /\ \E i, j \in DOMAIN in_data :
          /\ in_data[i] = Q(0) /\ ret[i] = Q(49)
          /\ in_data[j] \in {Q(-1), Q(1)}

\* a call with a threshold, a threshold_out and an input range of its own on
\* a pixel of each part
C21_WitnessGeneral ==
    /\ NdviDone
    /\ {"min_in", "max_in", "threshold", "threshold_out"} \subseteq DOMAIN rescale_options
    /\ \E i, j \in DOMAIN in_data :
          /\ VLt(in_data[i], NdviThreshold) /\ VGt(in_data[i], NdviMinIn)
          /\ VGt(in_data[j], NdviThreshold) /\ VLt(in_data[j], NdviMaxIn)

----------------------------------------------------------------------------
(* brightness_temperature_scale on its own *)

\* 'brightness_temperature' has returned
BtDone == pc = "done" /\ method = "brightness_temperature" /\ raised = "none"

\* the limits of the call in the unit of the data
BtShift == IF Get(rescale_options, "units", "kelvin") = "celsius" THEN KelvinOffset ELSE Q(0)
BtMinIn == VSub(rescale_options["min_in"], BtShift)
BtMaxIn == VSub(rescale_options["max_in"], BtShift)
BtThreshold == VSub(rescale_options["threshold"], BtShift)
BtThresholdOut ==
    IF Has(rescale_options, "threshold_out") THEN rescale_options["threshold_out"]
    ELSE VMul(Rat(176, 255), OptMax)

\* the call is inside the claim's case
BtCase == BtDone /\ VLt(BtMinIn, BtThreshold) /\ VLt(BtThreshold, BtMaxIn)

\* each pixel is on the line of its side of the threshold
BtTwoLines ==
    \A i \in DOMAIN in_data :
        /\ VLt(in_data[i], BtThreshold) =>
              ret[i] = TwoPoint(in_data[i], BtMinIn, OptMax, BtThreshold, BtThresholdOut)
        /\ VGe(in_data[i], BtThreshold) =>
              ret[i] = TwoPoint(in_data[i], BtThreshold, BtThresholdOut, BtMaxIn, OptMin)

\* a colder input never has the darker output
BtColderBrighter ==
    \A i, j \in DOMAIN in_data : VLe(in_data[i], in_data[j]) => VGe(ret[i], ret[j])

\* C22 (as claimed): with min_in < threshold < max_in an input below
\* threshold is on the low line (min_in to max_out, threshold to
\* threshold_out), an input at or above threshold on the high line (threshold
\* to threshold_out, max_in to min_out), and colder inputs never get a darker
\* output than warmer ones.
C22_Original == BtCase => (BtTwoLines /\ BtColderBrighter)

\* C22 (amended): with min_in < threshold < max_in each input is on the line
\* of its side of the threshold; colder inputs never get a darker output than
\* warmer ones when min_out <= threshold_out <= max_out.
C22_TwoBranches ==
    BtCase =>
        /\ BtTwoLines
        /\ (VLe(OptMin, BtThresholdOut) /\ VLe(BtThresholdOut, OptMax)) => BtColderBrighter

\* a call with min_out <= threshold_out <= max_out on a pixel strictly inside
\* each side of the threshold, the colder one brighter
C22_Witness ==
    /\ BtCase /\ VLt(OptMin, BtThresholdOut) /\ VLt(BtThresholdOut, OptMax)
    /\ \E i, j \in DOMAIN in_data :
          /\ VGt(in_data[i], BtMinIn) /\ VLt(in_data[i], BtThreshold)
          /\ VGt(in_data[j], BtThreshold) /\ VLt(in_data[j], BtMaxIn)
          /\ VGt(ret[i], ret[j])

----------------------------------------------------------------------------
(* lst through the masked application layer *)

\* 'lst' has returned with room between its margins
LstDone ==
    /\ Returned /\ method = "lst"
    /\ VLt(rescale_options["min_in"], rescale_options["max_in"])
    /\ VLe(VAdd(OptMin, Q(5)), VSub(OptMax, Q(5)))
    /\ ~Has(rescale_options, "flip") /\ ~Has(rescale_options, "offset")

\* the linearly scaled value of pixel i
LstLinear(i) ==
    TwoPoint(in_data[i], rescale_options["min_in"], VAdd(OptMin, Q(5)),
             rescale_options["max_in"], VSub(OptMax, Q(5)))

\* C23: for method lst every valid pixel whose linearly scaled value is
\* below min_out + 5 ends masked and holds exactly the fill value; every
\* valid pixel whose scaled value is above max_out - 5 is clamped to
\* max_out - 5 (incremented with inc_by_one) and stays valid.
C23_LstUnderflowMasked ==
    LstDone =>
        \A i \in DOMAIN in_data :
            in_mask[i] =>
                /\ VLt(LstLinear(i), VAdd(OptMin, Q(5))) =>
                      (~good_data_mask[i] /\ ret[i] = fill_value)
                /\ VGt(LstLinear(i), VSub(OptMax, Q(5))) =>
                      (good_data_mask[i] /\ ret[i] = VAdd(VSub(OptMax, Q(5)), Inc))

\* what the code does with a fill value of NaN: the claim's behaviour
C23_NaNFillMasked == IsNaN(fill_value) => C23_LstUnderflowMasked

\* a pixel under the low margin that is still valid after the call
C23_UnderflowStaysValid ==
    /\ LstDone /\ ~IsNaN(fill_value)
    /\ \E i \in DOMAIN in_data :
          /\ in_mask[i] /\ VLt(LstLinear(i), VAdd(OptMin, Q(5)))
          /\ good_data_mask[i]

----------------------------------------------------------------------------
(* temperature_difference_scale on its own *)

\* the call of the docstring's example: -10..10 into 0..255
TempDiffExample ==
    /\ pc = "done" /\ method = "temperature_difference" /\ raised = "none"
    /\ rescale_options["min_in"] = Q(-10) /\ rescale_options["max_in"] = Q(10)
    /\ OptMin = Q(0) /\ OptMax = Q(255)

\* every pixel of the example call inside -10..10 is on the line from
\* (-10, 5) to (10, top), one below -10 is 4, one above 10 is top + 1
TempDiffInto(top) ==
    \A i \in DOMAIN in_data :
        /\ (VGe(in_data[i], Q(-10)) /\ VLe(in_data[i], Q(10))) =>
              ret[i] = TwoPoint(in_data[i], Q(-10), Q(5), Q(10), Q(top))
        /\ VLt(in_data[i], Q(-10)) => ret[i] = Q(4)
        /\ VGt(in_data[i], Q(10)) => ret[i] = Q(top + 1)

\* C24: temperature_difference_scale with min_out=0, max_out=255, min_in=-10,
\* max_in=10 puts -10..10 linearly into 5..205, sets every input below -10
\* to 4 and every input above 10 to 206.
C24_Into5To205 == TempDiffExample => TempDiffInto(205)

\* what lines 296-300 do: 0.8 * (255 - 0) is 204, so -10..10 goes into
\* 5..204 and an input above 10 becomes 205
C24_Into5To204 == TempDiffExample => TempDiffInto(204)

\* the example call on an array with 10 and a value above 10
C24_TopIs204 ==
    /\ TempDiffExample
    /\ \E i, j \in DOMAIN in_data :
          /\ in_data[i] = Q(10) /\ ret[i] = Q(204)
          /\ in_data[j] = Q(11) /\ ret[j] = Q(205)

----------------------------------------------------------------------------
(* lookup_scale on its own *)

\* 'lookup' has returned
LookupDone == pc = "done" /\ method = "lookup" /\ raised = "none"

LookupTable == Get(rescale_options, "table_name", "crefl")
LookupMinIn == rescale_options["min_in"]
LookupMaxIn == rescale_options["max_in"]
\* the call passes neither flip nor offset on to the last rescaling
LookupPlain == ~Has(rescale_options, "flip") /\ ~Has(rescale_options, "offset")

\* the table's output t rescaled from 0..255 onto [min_out, max_out]
OutOf(t) == TwoPoint(t, Q(0), OptMin, Q(255), OptMax)

\* inputs at or outside the ends of the input range give the ends of the
\* output range
LookupEnds ==
    \A i \in DOMAIN in_data :
        /\ VLe(in_data[i], LookupMinIn) => ret[i] = OptMin
        /\ VGe(in_data[i], LookupMaxIn) => ret[i] = OptMax

\* every output of a number is in the output range, and the outputs are in
\* the order of the inputs
LookupInRange ==
    /\ \A i \in DOMAIN in_data :
          ~IsNaN(in_data[i]) => (VGe(ret[i], OptMin) /\ VLe(ret[i], OptMax))
    /\ \A i, j \in DOMAIN in_data :
          VLe(in_data[i], in_data[j]) => VLe(ret[i], ret[j])

\* the control-point table: 25 is a control point with output 90, 40 lies a
\* half of the way from 25 (90) to 55 (140); over the input range 0..510 the
\* inputs 25 and 40 become 12.5 and 20, on the segment from 0 (0) to 25 (90)
LookupInterpolates ==
    \A i \in DOMAIN in_data :
        /\ (LookupMaxIn = Q(255) /\ in_data[i] = Q(25)) => ret[i] = OutOf(Q(90))
        /\ (LookupMaxIn = Q(255) /\ in_data[i] = Q(40)) => ret[i] = OutOf(Q(115))
        /\ (LookupMaxIn = Q(510) /\ in_data[i] = Q(25)) => ret[i] = OutOf(Q(45))
        /\ (LookupMaxIn = Q(510) /\ in_data[i] = Q(40)) => ret[i] = OutOf(Q(72))

\* the dense table: over the input range 0..510 the input 25 becomes 12.5 and
\* reads entry 12, the input 40 becomes 20 and reads entry 20
LookupTruncates ==
    \A i \in DOMAIN in_data :
        /\ (LookupMaxIn = Q(510) /\ in_data[i] = Q(25)) =>
              ret[i] = OutOf(Q(pw_255_lookup_table[13]))
        /\ (LookupMaxIn = Q(510) /\ in_data[i] = Q(40)) =>
              ret[i] = OutOf(Q(pw_255_lookup_table[21]))

\* C25 (as claimed): with the control-point table lookup_scale rescales the
\* input into the table's input domain, clips, interpolates between the
\* control points and rescales onto [min_out, max_out]: an input at or below
\* min_in gives min_out, one at or above max_in gives max_out, every output
\* is in [min_out, max_out] and the mapping is non-decreasing; with the dense
\* table the rescaled, clipped value is truncated to an index.
C25_Original ==
    LookupDone =>
        /\ LookupTable = "crefl" => (LookupEnds /\ LookupInRange /\ LookupInterpolates)
        /\ LookupTable = "crefl_old" => LookupTruncates

\* C25 (amended): the same for a call with min_in < max_in that passes
\* neither flip nor offset; the outputs are inside [min_out, max_out] and
\* non-decreasing when min_out <= max_out.
C25_LookupPipeline ==
    (LookupDone /\ VLt(LookupMinIn, LookupMaxIn) /\ LookupPlain) =>
        /\ LookupTable = "crefl" =>
              /\ LookupEnds /\ LookupInterpolates
              /\ VLe(OptMin, OptMax) => LookupInRange
        /\ LookupTable = "crefl_old" => LookupTruncates

\* a plain call with the control-point table on a value between two control
\* points and a value past the end of the input range
C25_Witness ==
    /\ LookupDone /\ LookupPlain /\ LookupTable = "crefl"
    /\ LookupMaxIn = Q(255) /\ VLt(OptMin, OptMax)
    /\ \E i, j \in DOMAIN in_data :
          /\ in_data[i] = Q(40) /\ ret[i] = OutOf(Q(115))
          /\ in_data[j] = Q(600) /\ ret[j] = OptMax

\* a plain call with the dense table on a value that falls between two
\* entries
C25_WitnessDense ==
    /\ LookupDone /\ LookupPlain /\ LookupTable = "crefl_old"
    /\ LookupMaxIn = Q(510) /\ VLt(OptMin, OptMax)
    /\ \E i \in DOMAIN in_data : in_data[i] = Q(25) /\ ret[i] = OutOf(Q(43))

----------------------------------------------------------------------------
(* water_temp_palettize on its own *)

\* 'water_temp_palettize' was called
WaterTempCalled == pc = "done" /\ method = "water_temp_palettize"

\* the one rule that names the value x, if any
WaterTempRule(x) ==
    IF VEq(x, Q(150)) THEN Q(31)
    ELSE IF VEq(x, Q(199)) THEN Q(18)
    ELSE IF VGe(x, Q(200)) THEN VSub(x, Q(100))
    ELSE x

\* C26: water_temp_palettize changes each pixel by at most one of its three
\* rules, decided on the value the pixel had: 150 becomes 31, 199 becomes 18,
\* a value v >= 200 becomes v - 100, every other value is unchanged; without
\* a palette, or with an object that is no palette, it raises and no pixel
\* has changed.
C26_OneRulePerPixel ==
    WaterTempCalled =>
        IF Get(rescale_options, "colormap", NoColormap) = ColormapObject
        THEN /\ raised = "none"
             /\ \A i \in DOMAIN in_data : ret[i] = WaterTempRule(in_data[i])
        ELSE raised = "ValueError" /\ ret = NoRet /\ data = in_data

\* a call on the pixels 150 and 250: the 150 that the shift produces is not
\* remapped again
C26_Witness ==
    /\ WaterTempCalled /\ raised = "none"
    /\ \E i, j \in DOMAIN in_data :
          /\ in_data[i] = Q(150) /\ ret[i] = Q(31)
          /\ in_data[j] = Q(250) /\ ret[j] = Q(150)

\* a call with an object that is no palette
C26_WitnessRaises ==
    /\ WaterTempCalled /\ raised = "ValueError"
    /\ Get(rescale_options, "colormap", NoColormap) = OtherObject
    /\ in_data # <<>>

----------------------------------------------------------------------------
(* the validity mask and the buffer across _rescale_data *)

\* the scaled value of valid pixel i after the mask-clip of lines 530-533
MaskClipped(i) ==
    IF clip /\ mask_clip \in {"both", "min"} /\ Below(i) THEN NaN
    ELSE IF clip /\ mask_clip \in {"both", "max"} /\ Above(i) THEN NaN
    ELSE ScaledAt(i)

\* C27: after _rescale_data for a non-palette method the mask is a subset of
\* the input mask; when the call returned, a pixel is valid exactly when it
\* was valid before and its scaled (and, with clip, mask-clipped) value is
\* not NaN.
C27_MaskShrinks ==
    (pc = "done" /\ ~PaletteMethod) =>
        /\ \A i \in DOMAIN in_mask : good_data_mask[i] => in_mask[i]
        /\ Scaled =>
              \A i \in DOMAIN in_mask :
                  good_data_mask[i] <=> (in_mask[i] /\ ~IsNaN(MaskClipped(i)))

\* a returned call that left a valid pixel valid, took a valid pixel out of
\* the mask, and had an invalid pixel that does not hold NaN
C27_Witness ==
    /\ Scaled
    /\ \E i \in DOMAIN in_mask : in_mask[i] /\ ~good_data_mask[i]
    /\ \E i \in DOMAIN in_mask :
          \/ in_mask[i] /\ good_data_mask[i]
          \/ ~in_mask[i] /\ ~IsNaN(in_data[i])

\* C28: if _rescale_data raises for a non-palette method (unknown name, a
\* scaling function that raises, a missing min_out / max_out while clipping)
\* the buffer and the mask passed in are unchanged.
C28_RaiseLeavesBuffer ==
    (pc = "done" /\ raised # "none" /\ ~PaletteMethod) =>
        (data = in_data /\ good_data_mask = in_mask)

\* a clipping, incrementing call without min_out / max_out on a buffer with
\* a valid number and an invalid pixel that does not hold the fill value
C28_Witness ==
    /\ pc = "done" /\ raised = "KeyError" /\ method = "raw"
    /\ clip /\ inc_by_one /\ ~Has(rescale_options, "min_out")
    /\ \E i \in DOMAIN in_mask : in_mask[i] /\ ~IsNaN(in_data[i])
    /\ \E i \in DOMAIN in_mask : ~in_mask[i] /\ in_data[i] # fill_value
    /\ data = in_data /\ good_data_mask = in_mask

----------------------------------------------------------------------------
(* a product without a valid pixel *)

\* the first call of rescale_product is over, the mask marked every pixel
\* invalid, and a non-palette method of the catalog was called with all the
\* arguments it requires
NoValidPixel ==
    /\ pc = "called1"
    /\ \A b \in DOMAIN in_mask : \A i \in DOMAIN in_mask[b] : ~in_mask[b][i]
    /\ method \in rescale_methods /\ ~PaletteMethod
    /\ {"method", "inc_by_one"} \subseteq DOMAIN ResolvedNow \/ preresolved
    /\ RequiredArgs(method) \subseteq DOMAIN ResolvedNow
    /\ {"min_out", "max_out"} \subseteq DOMAIN ResolvedNow

\* the call returned and every pixel holds the fill value
AllFill ==
    /\ raised = "none"
    /\ \A b \in DOMAIN ret : \A i \in DOMAIN ret[b] : ret[b][i] = fill_value

\* 'linear' computes its input range from the data
AutoRanged ==
    method = "linear" /\ ~({"min_in", "max_in"} \subseteq DOMAIN ResolvedNow)

\* C29: rescaling a product whose mask marks every pixel invalid returns
\* normally with every pixel equal to the fill value, for every non-palette
\* method, 'linear' without min_in / max_in included.
C29_NoValidPixelFills == NoValidPixel => AllFill

\* what the code does for every method but the auto-ranged 'linear'
C29_GivenRangeFills == (NoValidPixel /\ ~AutoRanged) => AllFill

\* an all-invalid product through the auto-ranged 'linear': ValueError
C29_AutoRangeRaises ==
    NoValidPixel /\ AutoRanged /\ raised = "ValueError" /\ ret = NoRet

----------------------------------------------------------------------------
(* inc_by_one and the top of the output type *)

\* the first call of rescale_product resolved a rule and returned, with
\* inc_by_one and clip set, for a non-palette method
Incremented ==
    /\ pc = "called1" /\ raised = "none" /\ ~preresolved
    /\ inc_by_one /\ clip /\ ~PaletteMethod

\* every valid output pixel is at most the largest value of the output type
FitsType ==
    \A b \in DOMAIN ret : \A i \in DOMAIN ret[b] :
        (in_mask[b][i] /\ ~IsNaN(ret[b][i])) => VLe(ret[b][i], TypeRange[2])

\* C30: with inc_by_one and clip set every valid output pixel of
\* rescale_product is at most the largest value of the output data type, for
\* every matched rule, one that sets max_out itself included.
C30_IncFitsType == Incremented => FitsType

\* what the code guarantees: the pixels fit when the resolved max_out is
\* below the top of the type, as the default of line 572 is
C30_FitsBelowTop ==
    (Incremented /\ VLt(ResolvedNow["max_out"], TypeRange[2])) => FitsType

\* a rule with max_out at the top of the type: a pixel one above it
C30_PastTheTop ==
    /\ Incremented /\ VEq(ResolvedNow["max_out"], TypeRange[2])
    /\ \E b \in DOMAIN ret : \E i \in DOMAIN ret[b] :
          in_mask[b][i] /\ ret[b][i] = VAdd(TypeRange[2], Q(1))

============================================================================
